---- MODULE Spec2Model ----
(***************************************************************************)
(* Visual-regression orchestrator: the worker pools of run-tests and       *)
(* captureAll, captureWithRetry, the filename keying of the Capture        *)
(* Engine and the Comparison Engine (ODiff and pixelmatch revisions).      *)
(*                                                                         *)
(* Strings are sequences of one-character strings, so that sanitising a    *)
(* name and concatenating names are computed as the code computes them.    *)
(* Files live in fs.files, a function from paths to contents; a path is a  *)
(* record [dir, name] (path.join(dir, name)).                              *)
(***************************************************************************)
EXTENDS Integers, Sequences, FiniteSets, TLC

(***************************************************************************)
(* Bounds of the model.                                                    *)
(***************************************************************************)
\* longest scenario id / viewport key drawn for the filename keying
MaxLen == 2
\* largest number of scenarios in a payload of the worker-pool model
MaxScenarios == 2
\* largest configured playwright.workers
MaxWorkers == 2
\* largest configured retries.maxRetries
MaxRetriesBound == 2
\* largest image height drawn for the comparison model (width is 1)
MaxHeight == 3
\* largest number of dark pixels of a drawn image
MaxInk == 2
\* largest configured comparison.maxDiffPixels
MaxDiffPixelsBound == 2
\* maxDiffPixelRatio is drawn as k / RatioDen, k in 0..RatioDen
RatioDen == 2
\* resolution of a reported percentage: units of 1/PctScale percent
PctScale == 10000
\* number of generateFilename calls followed in the keying model
MaxKeyed == 2
\* number of commands run one after the other in the lifecycle model
MaxRuns == 3
\* number of interactions a scenario declares
MaxInteractions == 2
\* largest document height a poll returns
MaxDocHeight == 2
\* largest height of the document before the scrolling, in scroll steps
MaxScreens == 2
\* number of chromium.launch() calls followed in the service model
MaxLaunches == 2
\* number of context.newPage() failures followed in the service model
MaxPageFailures == 1

(***************************************************************************)
(* Strings and filename keying.                                            *)
(***************************************************************************)
Letters ==
  {"a","b","c","d","e","f","g","h","i","j","k","l","m","n","o","p","q","r",
   "s","t","u","v","w","x","y","z","A","B","C","D","E","F","G","H","I","J",
   "K","L","M","N","O","P","Q","R","S","T","U","V","W","X","Y","Z"}

Digits == {"0","1","2","3","4","5","6","7","8","9"}

\* the character class [a-zA-Z0-9_-] of generateFilename
SafeChars == Letters \cup Digits \cup {"_", "-"}

\* the characters names are drawn from: a safe one, the separator
\* character and one outside the class
Alphabet == {"a", "_", "."}

Names == UNION {[1..n -> Alphabet] : n \in 1..MaxLen}

\* s.replace(/[^a-zA-Z0-9_-]/g, '_')
sanitize(s) == [i \in DOMAIN s |-> IF s[i] \in SafeChars THEN s[i] ELSE "_"]

PngExt == <<".", "p", "n", "g">>

Separator == <<"_", "_">>

\* ScreenshotService.generateFilename: `${safeId}__${safeViewport}.png`
generateFilename(scenarioId, viewportKey) ==
  sanitize(scenarioId) \o Separator \o sanitize(viewportKey) \o PngExt

\* safeFilename of the Playwright test file, the same keying
safeFilename(scenarioId, viewportKey) ==
  sanitize(scenarioId) \o Separator \o sanitize(viewportKey) \o PngExt

\* ComparisonService: const filename = `${scenarioId}__${viewportKey}.png`
comparisonFilename(scenarioId, viewportKey) ==
  scenarioId \o Separator \o viewportKey \o PngExt

(***************************************************************************)
(* File system.                                                            *)
(***************************************************************************)
\* config.baselineDir, config.outputDir, config.diffDir (DEFAULT_CONFIG)
baselineDir == "./baselines"

outputDir == "./screenshots"

diffDir == "./diffs"

\* path.join(dir, filename)
pathJoin(dir, filename) == [dir |-> dir, name |-> filename]

\* the value of an absent optional path (undefined)
NoPath == [dir |-> "", name |-> <<>>]

\* fs.existsSync for a file and for a directory
existsSync(fs, p) == p \in DOMAIN fs.files

dirExists(fs, dir) == dir \in fs.dirs

\* ensureDirectoryExists: mkdirSync(dir, {recursive: true}) when absent
ensureDirectoryExists(fs, dir) ==
  IF dirExists(fs, dir) THEN fs ELSE [fs EXCEPT !.dirs = @ \cup {dir}]

\* a whole-file write (writeFileSync, copyFileSync target, screenshot)
writeFile(fs, p, content) ==
  [fs EXCEPT !.dirs = @ \cup {p.dir}, !.files = (p :> content) @@ @]

\* fs.unlinkSync
unlinkSync(fs, p) ==
  [fs EXCEPT !.files = [q \in (DOMAIN fs.files) \ {p} |-> fs.files[q]]]

EmptyFs == [dirs |-> {}, files |-> <<>>]

(***************************************************************************)
(* Images.  An image is w x h pixels of which the first `ink` (in raster   *)
(* order) are dark; a file that is not a decodable PNG has w = 0.          *)
(***************************************************************************)
Image(w, h, ink) == [w |-> w, h |-> h, ink |-> ink]

NotAnImage == Image(0, 0, 0)

IsImage(c) == c.w > 0

Images == {i \in [w : {1}, h : 2..MaxHeight, ink : 0..MaxInk] : i.ink <= i.w * i.h}

Contents == Images \cup {NotAnImage}

\* number of pixels that differ between two images of equal dimensions
DiffCount(a, b) == IF a.ink >= b.ink THEN a.ink - b.ink ELSE b.ink - a.ink

SameDimensions(a, b) == a.w = b.w /\ a.h = b.h

\* x / y rounded to the nearest integer (Math.round of a positive quotient)
RoundDiv(x, y) == (2 * x + y) \div (2 * y)

\* (diffCount / totalCount) * 100 at the resolution of a reported number
Percentage(diffCount, totalCount) == RoundDiv(100 * PctScale * diffCount, totalCount)

(***************************************************************************)
(* Comparison Engine.                                                      *)
(***************************************************************************)
\* the value of an absent optional number or string of a result
Undefined == -2

NoText == ""

\* the two revisions of ComparisonService
Revisions == {"odiff", "pixelmatch"}

ComparisonResult(passed, diffPixels, diffPercentage, totalPixels, diffPath, error, warning) ==
  [passed |-> passed, diffPixels |-> diffPixels, diffPercentage |-> diffPercentage,
   totalPixels |-> totalPixels, diffPath |-> diffPath, error |-> error,
   warning |-> warning]

\* a sentinel result that reports no difference at all
CouldNotCompare_NoPercentage(totalPixels, error) ==
  ComparisonResult(FALSE, -1, 0, totalPixels, NoPath, error, NoText)

\* { passed: false, diffPixels: -1, diffPercentage: 100, totalPixels, error }
CouldNotCompare(totalPixels, error) ==
  ComparisonResult(FALSE, -1, 100 * PctScale, totalPixels, NoPath, error, NoText)

\* { passed: true, diffPixels: 0, diffPercentage: 0, totalPixels: 0, warning }
NoDifference(warning) == ComparisonResult(TRUE, 0, 0, 0, NoPath, NoText, warning)

\* the compare primitive of odiff-bin, called with failOnLayoutDiff: true;
\* it writes the diff image only when it reports a pixel difference
odiff(fs, basePath, comparePath, diffOutput) ==
  LET missing == IF ~existsSync(fs, basePath) THEN basePath
                 ELSE IF ~existsSync(fs, comparePath) THEN comparePath ELSE NoPath
      Reply(threw, match, reason, diffCount, diffPercentage, file, fs2) ==
        [threw |-> threw, match |-> match, reason |-> reason,
         diffCount |-> diffCount, diffPercentage |-> diffPercentage,
         file |-> file, fs |-> fs2]
  IN IF missing # NoPath
       THEN Reply(FALSE, FALSE, "file-not-exists", 0, 0, missing, fs)
     ELSE LET a == fs.files[basePath]
              b == fs.files[comparePath]
          IN IF ~IsImage(a) \/ ~IsImage(b)
               THEN Reply(TRUE, FALSE, "", 0, 0, NoPath, fs)
             ELSE IF ~SameDimensions(a, b)
               THEN Reply(FALSE, FALSE, "layout-diff", 0, 0, NoPath, fs)
             ELSE IF DiffCount(a, b) = 0
               THEN Reply(FALSE, TRUE, "", 0, 0, NoPath, fs)
             ELSE Reply(FALSE, FALSE, "pixel-diff", DiffCount(a, b),
                        Percentage(DiffCount(a, b), a.w * a.h), NoPath,
                        IF diffOutput = NoPath THEN fs
                        ELSE writeFile(fs, diffOutput,
                                       Image(a.w, a.h, DiffCount(a, b))))

\* a tolerance that lets a difference pass when either budget is met
evaluatePass_EitherBudget(cfg, diffPixels, diffPercentage, totalPixels) ==
  \/ diffPixels = 0
  \/ diffPixels <= cfg.maxDiffPixels
  \/ diffPixels * RatioDen <= cfg.maxDiffPixelRatio * totalPixels

\* ComparisonService.evaluatePass, ODiff revision; maxDiffPixelRatio is
\* cfg.maxDiffPixelRatio / RatioDen
evaluatePass(cfg, diffPixels, diffPercentage, totalPixels) ==
  IF diffPixels = 0 THEN TRUE
  ELSE IF diffPixels > cfg.maxDiffPixels THEN FALSE
  ELSE IF totalPixels > 0 /\ diffPixels * RatioDen > cfg.maxDiffPixelRatio * totalPixels
    THEN FALSE
  ELSE TRUE

\* ComparisonService.evaluatePass, pixelmatch revision (no totalPixels guard)
evaluatePassPixelmatch(cfg, diffPixels, diffPercentage, totalPixels) ==
  IF diffPixels = 0 THEN TRUE
  ELSE IF diffPixels > cfg.maxDiffPixels THEN FALSE
  ELSE IF diffPixels * RatioDen > cfg.maxDiffPixelRatio * totalPixels THEN FALSE
  ELSE TRUE

\* the unlink of a diff file that exists: if (diffPath && fs.existsSync(diffPath))
removeDiff(fs, diffPath) ==
  IF diffPath # NoPath /\ existsSync(fs, diffPath) THEN unlinkSync(fs, diffPath) ELSE fs

Outcome(fs, result, calls, threw) ==
  [fs |-> fs, result |-> result, calls |-> calls, threw |-> threw]

\* ComparisonService.compare, ODiff revision.  calls counts the
\* invocations of the pixel-diff primitive.
compareOdiff(fs, cfg, baselinePath, screenshotPath, diffPath) ==
  IF ~existsSync(fs, baselinePath)
    THEN Outcome(fs, CouldNotCompare(0, "Baseline not found"), 0, FALSE)
  ELSE IF ~existsSync(fs, screenshotPath)
    THEN Outcome(fs, CouldNotCompare(0, "Screenshot not found"), 0, FALSE)
  ELSE
    LET fs1 == IF diffPath # NoPath THEN ensureDirectoryExists(fs, diffPath.dir) ELSE fs
        r == odiff(fs1, baselinePath, screenshotPath, diffPath)
        diffPixels == r.diffCount
        diffPercentage == r.diffPercentage
        totalPixels == IF diffPercentage > 0
                         THEN RoundDiv(100 * PctScale * diffPixels, diffPercentage)
                       ELSE 0
    IN IF r.threw
         THEN Outcome(r.fs, CouldNotCompare(0, "odiff failed"), 1, FALSE)
       ELSE IF r.match
         THEN Outcome(removeDiff(r.fs, diffPath), NoDifference(NoText), 1, FALSE)
       ELSE IF r.reason = "layout-diff"
         THEN Outcome(removeDiff(r.fs, diffPath), NoDifference("dimension-mismatch"),
                      1, FALSE)
       ELSE IF r.reason = "file-not-exists"
         THEN Outcome(r.fs, CouldNotCompare(0, "File not found"), 1, FALSE)
       ELSE IF diffPixels = 0
         THEN Outcome(removeDiff(r.fs, diffPath), NoDifference(NoText), 1, FALSE)
       ELSE Outcome(r.fs,
                    ComparisonResult(
                      evaluatePass(cfg, diffPixels, diffPercentage, totalPixels),
                      diffPixels, diffPercentage, totalPixels,
                      IF diffPath # NoPath /\ existsSync(r.fs, diffPath)
                        THEN diffPath ELSE NoPath,
                      NoText, NoText),
                    1, FALSE)

\* ComparisonService.compare, pixelmatch revision.  A thrown error is
\* reported as threw with the message in result.error.
comparePixelmatch(fs, cfg, baselinePath, screenshotPath, diffPath) ==
  IF ~existsSync(fs, baselinePath)
    THEN Outcome(fs, CouldNotCompare(0, NoText), 0, FALSE)
  ELSE IF ~existsSync(fs, screenshotPath)
    THEN Outcome(fs, CouldNotCompare(0, "Screenshot not found"), 0, TRUE)
  ELSE
    LET baseline == fs.files[baselinePath]
        screenshot == fs.files[screenshotPath]
        totalPixels == baseline.w * baseline.h
        diffPixels == DiffCount(baseline, screenshot)
        diffPercentage == Percentage(diffPixels, totalPixels)
        passed == evaluatePassPixelmatch(cfg, diffPixels, diffPercentage, totalPixels)
        saved == diffPath # NoPath /\ diffPixels > 0
    IN IF ~IsImage(baseline) \/ ~IsImage(screenshot)
         THEN Outcome(fs, CouldNotCompare(0, "Invalid file signature"), 0, TRUE)
       ELSE IF ~SameDimensions(baseline, screenshot)
         THEN Outcome(fs, CouldNotCompare(totalPixels, NoText), 0, FALSE)
       ELSE Outcome(IF saved
                      THEN writeFile(ensureDirectoryExists(fs, diffPath.dir), diffPath,
                                     Image(baseline.w, baseline.h, diffPixels))
                    ELSE fs,
                    ComparisonResult(passed, diffPixels, diffPercentage, totalPixels,
                                     IF saved THEN diffPath ELSE NoPath, NoText, NoText),
                    1, FALSE)

compare(rev, fs, cfg, baselinePath, screenshotPath, diffPath) ==
  IF rev = "odiff" THEN compareOdiff(fs, cfg, baselinePath, screenshotPath, diffPath)
  ELSE comparePixelmatch(fs, cfg, baselinePath, screenshotPath, diffPath)

TestResult(scenarioId, viewport, passed, diffPixels, diffPercentage, error, warning, screenshotPath, baselinePath, diffPath) ==
  [scenarioId |-> scenarioId, viewport |-> viewport, passed |-> passed,
   diffPixels |-> diffPixels, diffPercentage |-> diffPercentage, error |-> error,
   warning |-> warning, screenshotPath |-> screenshotPath,
   baselinePath |-> baselinePath, diffPath |-> diffPath]

BaselineNotFound == "Baseline not found. Run generate-baseline first."

\* compareScreenshot, the early return: the baseline file is missing
baselineMissing(fs, scenarioId, viewportKey, screenshotPath, baselinePath) ==
  Outcome(fs,
          TestResult(scenarioId, viewportKey, FALSE, Undefined, Undefined,
                     BaselineNotFound, NoText, screenshotPath, baselinePath, NoPath),
          0, FALSE)

\* compareScreenshot, the try block: the awaited compare and the result
\* built from it (result.error is not copied), or the catch
compared(rev, fs, cfg, scenarioId, viewportKey, screenshotPath, baselinePath, diffPath) ==
  LET c == compare(rev, fs, cfg, baselinePath, screenshotPath, diffPath)
  IN IF c.threw
       THEN Outcome(c.fs,
                    TestResult(scenarioId, viewportKey, FALSE, Undefined, Undefined,
                               c.result.error, NoText, screenshotPath, baselinePath,
                               NoPath),
                    c.calls, FALSE)
     ELSE Outcome(c.fs,
                  TestResult(scenarioId, viewportKey, c.result.passed,
                             c.result.diffPixels, c.result.diffPercentage, NoText,
                             c.result.warning, screenshotPath, baselinePath,
                             c.result.diffPath),
                  c.calls, FALSE)

\* a compareScreenshot that prepares the diff directory and runs the
\* comparison before it looks for the baseline
compareScreenshot_CheckLate(rev, fs, cfg, scenarioId, viewportKey, screenshotPath) ==
  LET filename == comparisonFilename(scenarioId, viewportKey)
      baselinePath == pathJoin(baselineDir, filename)
      diffPath == pathJoin(diffDir, filename)
      fs1 == ensureDirectoryExists(fs, diffDir)
  IN IF ~existsSync(fs, baselinePath)
       THEN baselineMissing(fs1, scenarioId, viewportKey, screenshotPath, baselinePath)
     ELSE compared(rev, fs1, cfg, scenarioId, viewportKey, screenshotPath,
                   baselinePath, diffPath)

\* ComparisonService.compareScreenshot (both revisions; the pixelmatch
\* revision has no warning field)
compareScreenshot(rev, fs, cfg, scenarioId, viewportKey, screenshotPath) ==
  LET filename == comparisonFilename(scenarioId, viewportKey)
      baselinePath == pathJoin(baselineDir, filename)
      diffPath == pathJoin(diffDir, filename)
  IN IF ~existsSync(fs, baselinePath)
       THEN baselineMissing(fs, scenarioId, viewportKey, screenshotPath, baselinePath)
     ELSE compared(rev, fs, cfg, scenarioId, viewportKey, screenshotPath,
                   baselinePath, diffPath)

\* a baseline check that finds a baseline for every key
baselineExists_Always(fs, scenarioId, viewportKey) == TRUE

\* ComparisonService.baselineExists
baselineExists(fs, scenarioId, viewportKey) ==
  existsSync(fs, pathJoin(baselineDir, comparisonFilename(scenarioId, viewportKey)))

\* ComparisonService.getBaselinePath
getBaselinePath(scenarioId, viewportKey) ==
  pathJoin(baselineDir, comparisonFilename(scenarioId, viewportKey))

\* a copyToBaseline that keys the baseline by the sanitised filename
copyToBaseline_Sanitised(fs, screenshotPath, scenarioId, viewportKey) ==
  LET baselinePath == pathJoin(baselineDir, generateFilename(scenarioId, viewportKey))
      fs1 == ensureDirectoryExists(fs, baselineDir)
  IN IF ~existsSync(fs1, screenshotPath)
       THEN [fs |-> fs1, threw |-> TRUE, path |-> NoPath]
     ELSE [fs |-> writeFile(fs1, baselinePath, fs1.files[screenshotPath]),
           threw |-> FALSE, path |-> baselinePath]

\* ComparisonService.copyToBaseline; copyFileSync throws when the source
\* is missing
copyToBaseline(fs, screenshotPath, scenarioId, viewportKey) ==
  LET baselinePath == pathJoin(baselineDir, comparisonFilename(scenarioId, viewportKey))
      fs1 == ensureDirectoryExists(fs, baselineDir)
  IN IF ~existsSync(fs1, screenshotPath)
       THEN [fs |-> fs1, threw |-> TRUE, path |-> NoPath]
     ELSE [fs |-> writeFile(fs1, baselinePath, fs1.files[screenshotPath]),
           threw |-> FALSE, path |-> baselinePath]

\* a cleanDiffs that removes the diff images of readable baselines only
cleanDiffs_OfBaselines(fs) ==
  IF dirExists(fs, diffDir)
    THEN [fs EXCEPT !.files = [q \in {p \in DOMAIN fs.files :
                                        p.dir = diffDir =>
                                          pathJoin(baselineDir, p.name) \notin DOMAIN fs.files}
                                 |-> fs.files[q]]]
  ELSE fs

\* ComparisonService.cleanDiffs: unlink every .png of the diff directory
cleanDiffs(fs) ==
  IF dirExists(fs, diffDir)
    THEN [fs EXCEPT !.files = [q \in {p \in DOMAIN fs.files : p.dir # diffDir}
                                 |-> fs.files[q]]]
  ELSE fs

\* an entry of the diff directory that is a directory with a .png name:
\* readdirSync lists it and unlinkSync throws on it
DiffArchive == "./diffs/archive.png"

\* ComparisonService.cleanDiffs throws out of fs.unlinkSync
cleanDiffsThrows(fs) == dirExists(fs, diffDir) /\ DiffArchive \in fs.dirs

(***************************************************************************)
(* State.                                                                  *)
(***************************************************************************)
VARIABLES
  fs,        \* the directories and files on disk
  config,    \* the loaded VrtConfig (comparison, workers, maxRetries)
  revision,  \* which revision of ComparisonService is linked
  subject,   \* the (scenario id, viewport key) the engine is called with
  call,      \* the last call of the Comparison / Capture Engine and its outcome
  keyed,     \* the generateFilename calls made so far: inputs and filename
  options,   \* the command and its options
  payload,   \* the fetched ApiPayload: scenarios and viewports
  phase,     \* where the command is: "start", "workers", "joined", "done"
  tasks,     \* the task queue
  counters,  \* the shared counters: completed, passed, failed, taskIndex
  results,   \* the shared results accumulator of runTests
  captureResults, \* the shared results accumulator of captureAll
  pool,      \* the workers: position, claimed task, retry state
  summary,   \* the TestRunSummary counts, once computed
  claims,    \* history: how many times each task index has been claimed
  retried,   \* history: the finished captureWithRetry calls, by outcome
  service,   \* the ScreenshotService: its browser, the browsers and contexts alive
  outcome,   \* how the command ended: exit code, failed-tests file, report
  runs       \* history: the commands run so far on this disk, oldest first

engineVars == <<revision, subject, call, keyed>>

lifeVars == <<service, outcome, runs>>

poolVars == <<options, payload, phase, tasks, counters, results, captureResults, pool,
              summary, claims, retried, service, outcome, runs>>

vars == <<fs, config, revision, subject, call, keyed, options, payload, phase, tasks,
          counters, results, captureResults, pool, summary, claims, retried, service,
          outcome, runs>>

Configs ==
  [maxDiffPixels : 0..MaxDiffPixelsBound, maxDiffPixelRatio : 0..RatioDen,
   workers : {1}, maxRetries : {0}]

\* a tolerance that some non-zero differences of the drawn images meet
\* and others exceed: one pixel, half of the image
TolerantConfig ==
  [maxDiffPixels |-> 1, maxDiffPixelRatio |-> 1, workers |-> 1, maxRetries |-> 0]

NoCounters == [completed |-> 0, passed |-> 0, failed |-> 0, taskIndex |-> 0]

NoSummary == [total |-> -1, passed |-> -1, failed |-> -1]

\* private browser: Browser | null = null, and nothing launched yet:
\* browser is the launched browser the service references (0: null),
\* launches the chromium.launch calls resolved so far, running the launched
\* browsers not yet closed, pending the initialize() calls awaiting their
\* launch, contexts the open browsing contexts, closes the browser.close()
\* calls made
NoService ==
  [browser |-> 0, launches |-> 0, running |-> {}, pending |-> 0, contexts |-> 0,
   closes |-> 0]

\* the process is still running: no exit code, nothing reported
NoOutcome ==
  [exitCode |-> -1, failedTests |-> {}, failedFile |-> "untouched", reported |-> -1]

\* the worker-pool variables where no command is running
NoPool ==
  /\ options = [command |-> "none", updateBaseline |-> FALSE]
  /\ payload = [scenarios |-> <<>>, viewports |-> {}]
  /\ phase = "none"
  /\ tasks = <<>>
  /\ counters = NoCounters
  /\ results = <<>>
  /\ captureResults = <<>>
  /\ pool = <<>>
  /\ summary = NoSummary
  /\ claims = <<>>
  /\ retried = {}
  /\ service = NoService
  /\ outcome = NoOutcome
  /\ runs = <<>>

(***************************************************************************)
(* The Comparison Engine called on one key.                                *)
(***************************************************************************)
\* ids with and without a character outside [a-zA-Z0-9_-]
SubjectIds == {n \in Names : Len(n) = 1 /\ n[1] # "_"}

SubjectKeys == {n \in Names : Len(n) = 1 /\ n[1] \in Letters}

\* where captureScreenshot writes the candidate of the subject
candidatePath == pathJoin(outputDir, generateFilename(subject.id, subject.key))

subjectBaseline == getBaselinePath(subject.id, subject.key)

subjectDiff == pathJoin(diffDir, comparisonFilename(subject.id, subject.key))

NoResult ==
  TestResult(<<>>, <<>>, FALSE, Undefined, Undefined, NoText, NoText, NoPath, NoPath,
             NoPath)

\* after: the call that preceded this one ("none" at the start, "failed"
\* when it threw)
Call(op, pre, result, calls, threw, path) ==
  [op |-> op, pre |-> pre, result |-> result, calls |-> calls, threw |-> threw,
   path |-> path, after |-> IF call.threw THEN "failed" ELSE call.op]

NoCall ==
  [op |-> "none", pre |-> EmptyFs, result |-> NoResult, calls |-> 0, threw |-> FALSE,
   path |-> NoPath, after |-> "none"]

InitCompare ==
  /\ revision \in Revisions
  /\ config = TolerantConfig
  /\ subject \in [id : SubjectIds, key : SubjectKeys]
  /\ \E b \in SUBSET Contents, c \in SUBSET Contents, stale \in BOOLEAN, dd \in BOOLEAN :
       /\ Cardinality(b) <= 1 /\ Cardinality(c) <= 1
       /\ stale => dd
       /\ fs = [dirs |-> (IF b # {} THEN {baselineDir} ELSE {}) \cup
                         (IF c # {} THEN {outputDir} ELSE {}) \cup
                         (IF dd THEN {diffDir} ELSE {}),
                files |->
                  [p \in (IF b # {} THEN {subjectBaseline} ELSE {}) \cup
                         (IF c # {} THEN {candidatePath} ELSE {}) \cup
                         (IF stale THEN {subjectDiff} ELSE {}) |->
                     IF p = subjectBaseline THEN CHOOSE x \in b : TRUE
                     ELSE IF p = candidatePath THEN CHOOSE x \in c : TRUE
                     ELSE Image(1, 2, 1)]]
  /\ call = NoCall
  /\ keyed = <<>>
  /\ NoPool

\* compareScreenshot(subject.id, subject.key, candidatePath)
CompareScreenshot ==
  LET out == compareScreenshot(revision, fs, config, subject.id, subject.key,
                               candidatePath)
  IN /\ fs' = out.fs
     /\ call' = Call("compareScreenshot", fs, out.result, out.calls, out.threw, NoPath)
     /\ UNCHANGED <<config, revision, subject, keyed, poolVars>>

\* copyToBaseline(candidatePath, subject.id, subject.key)
CopyToBaseline ==
  LET out == copyToBaseline(fs, candidatePath, subject.id, subject.key)
  IN /\ fs' = out.fs
     /\ call' = Call("copyToBaseline", fs, NoResult, 0, out.threw, out.path)
     /\ UNCHANGED <<config, revision, subject, keyed, poolVars>>

\* captureScreenshot of the subject into dir: the page renders as img and
\* the screenshot is written under generateFilename
CaptureInto(dir, img) ==
  LET screenshotPath == pathJoin(dir, generateFilename(subject.id, subject.key))
  IN /\ fs' = writeFile(ensureDirectoryExists(fs, dir), screenshotPath, img)
     /\ call' = Call("captureScreenshot", fs, NoResult, 0, FALSE, screenshotPath)
     /\ UNCHANGED <<config, revision, subject, keyed, poolVars>>

\* run-tests captures into outputDir, generate-baseline into baselineDir
CaptureCandidate == \E img \in Images : CaptureInto(outputDir, img)

\* the page of the baseline domain as generate-baseline renders it
BaselinePage == Image(1, 2, 0)

CaptureBaseline == CaptureInto(baselineDir, BaselinePage)

CleanDiffs ==
  /\ fs' = cleanDiffs(fs)
  /\ call' = Call("cleanDiffs", fs, NoResult, 0, FALSE, NoPath)
  /\ UNCHANGED <<config, revision, subject, keyed, poolVars>>

NextCompare ==
  \/ CompareScreenshot
  \/ CopyToBaseline
  \/ CaptureCandidate
  \/ CaptureBaseline
  \/ CleanDiffs

SpecCompare == InitCompare /\ [][NextCompare]_vars

(***************************************************************************)
(* The tolerance policy: every pair of decodable images under every        *)
(* configured pair of thresholds.                                          *)
(***************************************************************************)
InitThreshold ==
  /\ revision \in Revisions
  /\ config \in Configs
  /\ subject \in [id : {n \in SubjectIds : n[1] \in Letters}, key : SubjectKeys]
  /\ \E b \in Images, c \in Images :
       fs = [dirs |-> {baselineDir, outputDir},
             files |-> (subjectBaseline :> b) @@ (candidatePath :> c)]
  /\ call = NoCall
  /\ keyed = <<>>
  /\ NoPool

NextThreshold ==
  \/ CaptureCandidate
  \/ CompareScreenshot

SpecThreshold == InitThreshold /\ [][NextThreshold]_vars

(***************************************************************************)
(* ComparisonService.compare called directly on the files of the subject,  *)
(* under every configured tolerance.                                       *)
(***************************************************************************)
InitCompareDirect ==
  /\ InitCompare \/ InitThreshold

\* compare(subjectBaseline, candidatePath, subjectDiff): call.result holds
\* the ComparisonResult returned, call.threw tells that none was returned
Compare ==
  LET out == compare(revision, fs, config, subjectBaseline, candidatePath, subjectDiff)
  IN /\ fs' = out.fs
     /\ call' = Call("compare", fs, out.result, out.calls, out.threw, NoPath)
     /\ UNCHANGED <<config, revision, subject, keyed, poolVars>>

NextCompareDirect ==
  \/ Compare
  \/ CaptureCandidate

SpecCompareDirect == InitCompareDirect /\ [][NextCompareDirect]_vars

(***************************************************************************)
(* Filename keying: generateFilename called on arbitrary names.            *)
(***************************************************************************)
InitFilename ==
  /\ fs = EmptyFs
  /\ config = TolerantConfig
  /\ revision = "odiff"
  /\ subject = [id |-> <<"a">>, key |-> <<"a">>]
  /\ call = NoCall
  /\ keyed = <<>>
  /\ NoPool

GenerateFilename ==
  /\ Len(keyed) < MaxKeyed
  /\ \E id \in Names, key \in Names :
       keyed' = Append(keyed, [id |-> id, key |-> key,
                               filename |-> generateFilename(id, key)])
  /\ UNCHANGED <<fs, config, revision, subject, call, poolVars>>

NextFilename == GenerateFilename

SpecFilename == InitFilename /\ [][NextFilename]_vars

(***************************************************************************)
(* The worker pools: the processTask workers of runTests and the workers   *)
(* of ScreenshotService.captureAll (generate-baseline).  An action is one  *)
(* run of a worker between two awaits.                                     *)
(***************************************************************************)
\* chromium.launch() resolves and initialize() assigns this.browser
launched(svc) ==
  [svc EXCEPT !.launches = @ + 1, !.running = @ \cup {svc.launches + 1},
              !.browser = svc.launches + 1]

\* ScreenshotService.close: if (this.browser) { await this.browser.close();
\* this.browser = null }
close(svc) ==
  IF svc.browser # 0
    THEN [svc EXCEPT !.running = @ \ {svc.browser}, !.browser = 0, !.closes = @ + 1]
  ELSE svc

\* the id of the i-th scenario of a payload: "a", "aa", ...
PoolId(i) == [k \in 1..i |-> "a"]

\* the retries.maxRetries of the pool runs
PoolRetries == {1}

Desktop == <<"d">>

Mobile == <<"m">>

\* the viewport_keys of the i-th scenario of a payload, and the viewports
\* the payload may define (Mobile can be left undefined)
keysOf(i) == IF i % 2 = 1 THEN <<Desktop, Mobile>> ELSE <<Desktop>>

ViewportSets == {{Desktop, Mobile}, {Desktop}, {}}

\* a page of the test domain that has changed since the baseline
ChangedPage == Image(1, 2, 2)

\* how the test domain renders the i-th scenario: every second scenario
\* has changed
pageOf(i) == IF i % 2 = 1 THEN BaselinePage ELSE ChangedPage

Workers == 1..MaxWorkers

Min(a, b) == IF a <= b THEN a ELSE b

\* (scenario, viewport_key) pairs of the payload, in queue order
RECURSIVE PairsOf(_, _)
PairsOf(scenarios, i) ==
  IF i > Len(scenarios) THEN <<>>
  ELSE [k \in 1..Len(scenarios[i].viewport_keys) |->
          [scenario |-> i, viewportKey |-> scenarios[i].viewport_keys[k]]]
       \o PairsOf(scenarios, i + 1)

RECURSIVE SelectSeqBy(_, _)
SelectSeqBy(seq, keep) ==
  IF seq = <<>> THEN <<>>
  ELSE (IF Head(seq) \in keep THEN <<Head(seq)>> ELSE <<>>) \o SelectSeqBy(Tail(seq), keep)

Range(seq) == {seq[i] : i \in DOMAIN seq}

Resolvable(pl) == {t \in Range(PairsOf(pl.scenarios, 1)) : t.viewportKey \in pl.viewports}

\* the task queue: the pairs whose viewport key resolves
buildTasks(pl) == SelectSeqBy(PairsOf(pl.scenarios, 1), Resolvable(pl))

scenarioId(pl, t) == pl.scenarios[t.scenario].id

ViewportNotFound == "Viewport not found"

\* a run-tests that skips an unresolved viewport key as captureAll does
missingViewportResults_Skipped(pl) == <<>>

\* runTests: the failing result pushed for each unresolved viewport key
missingViewportResults(pl) ==
  LET missing == SelectSeqBy(PairsOf(pl.scenarios, 1),
                             Range(PairsOf(pl.scenarios, 1)) \ Resolvable(pl))
  IN [k \in DOMAIN missing |->
        TestResult(scenarioId(pl, missing[k]), missing[k].viewportKey, FALSE, Undefined,
                   Undefined, ViewportNotFound, NoText, NoPath, NoPath, NoPath)]

\* Math.min(config.playwright.workers, tasks.length)
numWorkers(workers, taskCount) == Min(workers, taskCount)

\* a claim that increments before it reads: ++taskIndex
claimedIndex_PreIncrement(taskIndex) == taskIndex + 1

\* const taskIdx = counters.taskIndex++: the index a claim obtains
claimedIndex(taskIndex) == taskIndex

\* a retry loop that stops one attempt early
retryAgain_OneShort(attempt, maxRetries) == attempt + 1 < maxRetries

\* captureWithRetry: if (attempt < maxRetries) wait retryDelay, and the
\* loop condition attempt <= maxRetries of the next round
retryAgain(attempt, maxRetries) == attempt < maxRetries

Idle == [pc |-> "idle", task |-> -1, attempt |-> 0, calls |-> 0, delays |-> 0,
         lastError |-> -1]

\* a claim that gives the loop up while another worker is in flight
afterClaim_Exclusive(taskIdx) ==
  IF taskIdx >= Len(tasks) \/ Cardinality({v \in DOMAIN pool : pool[v].pc = "capturing"}) > 1
    THEN [Idle EXCEPT !.pc = "done"]
  ELSE [pc |-> "capturing", task |-> taskIdx, attempt |-> 0, calls |-> 1, delays |-> 0,
        lastError |-> -1]

\* the worker after the claim of taskIdx: out of the loop, or into
\* captureWithRetry / captureScreenshot, awaiting the first attempt
afterClaim(taskIdx) ==
  IF taskIdx >= Len(tasks) THEN [Idle EXCEPT !.pc = "done"]
  ELSE [pc |-> "capturing", task |-> taskIdx, attempt |-> 0, calls |-> 1, delays |-> 0,
        lastError |-> -1]

\* a worker that leaves its loop when the task it finished has failed
resume_StopOnFailure(failed, taskIdx) ==
  IF failed THEN [Idle EXCEPT !.pc = "done"] ELSE afterClaim(taskIdx)

\* the end of the try/catch of a round: whether the task failed or not,
\* the while (true) loop goes on with the claim of taskIdx
resume(failed, taskIdx) == afterClaim(taskIdx)

\* the claim history after one more claim of taskIdx
claimed(log, taskIdx) ==
  IF taskIdx \in DOMAIN log THEN [log EXCEPT ![taskIdx] = @ + 1] ELSE log

taskOf(w) == tasks[pool[w].task + 1]

screenshotPathOf(dir, t) ==
  pathJoin(dir, generateFilename(scenarioId(payload, t), t.viewportKey))

\* the diff image an earlier run left for a pair
StaleDiff == Image(1, 2, 1)

\* where earlier runs left diff images: for the pairs of the payload and
\* for a scenario that is no longer served
StaleDiffPaths(pl) ==
  {pathJoin(diffDir, comparisonFilename(scenarioId(pl, t), t.viewportKey)) :
     t \in Range(PairsOf(pl.scenarios, 1))}
    \cup {pathJoin(diffDir, comparisonFilename(PoolId(MaxScenarios + 1), Desktop))}

\* disk with a diff image of an earlier run at each of paths
withStaleDiffs(disk, paths) ==
  IF paths = {} THEN disk
  ELSE [disk EXCEPT !.dirs = @ \cup {diffDir},
                    !.files = [q \in paths |-> StaleDiff] @@ @]

\* the state in which a command starts: its options, the loaded
\* configuration, the fetched payload and the disk
startFrom(scenarioLists, workerCounts, retryCounts, staleDiffs) ==
  /\ revision \in Revisions
  /\ subject = [id |-> <<"a">>, key |-> <<"a">>]
  /\ call = NoCall
  /\ keyed = <<>>
  /\ options \in {[command |-> "run-tests", updateBaseline |-> FALSE],
                  [command |-> "run-tests", updateBaseline |-> TRUE],
                  [command |-> "generate-baseline", updateBaseline |-> FALSE]}
  /\ config \in [maxDiffPixels : {TolerantConfig.maxDiffPixels},
                 maxDiffPixelRatio : {TolerantConfig.maxDiffPixelRatio},
                 workers : workerCounts, maxRetries : retryCounts]
  /\ payload \in [scenarios : scenarioLists, viewports : ViewportSets]
  /\ \E generated \in BOOLEAN, archived \in BOOLEAN, stale \in staleDiffs :
       fs = withStaleDiffs(
              IF archived
                THEN [dirs |-> {diffDir, DiffArchive}, files |-> <<>>]
              ELSE IF generated
                THEN [dirs |-> {baselineDir},
                      files |-> [q \in {pathJoin(baselineDir,
                                                 comparisonFilename(scenarioId(payload, t),
                                                                    t.viewportKey)) :
                                          t \in Range(PairsOf(payload.scenarios, 1))}
                                   |-> BaselinePage]]
              ELSE EmptyFs,
              IF stale THEN StaleDiffPaths(payload) ELSE {})
  /\ phase = "loaded"
  /\ service = NoService
  /\ outcome = NoOutcome
  /\ runs = <<>>
  /\ tasks = <<>>
  /\ counters = NoCounters
  /\ results = <<>>
  /\ captureResults = <<>>
  /\ pool = [w \in Workers |-> Idle]
  /\ summary = NoSummary
  /\ claims = <<>>
  /\ retried = {}

\* a start on a payload of n scenarios "a", "aa", ..., n of scenarioCounts
startOn(scenarioCounts, workerCounts, retryCounts, staleDiffs) ==
  startFrom({[i \in 1..n |-> [id |-> PoolId(i), viewport_keys |-> keysOf(i)]] :
               n \in scenarioCounts},
            workerCounts, retryCounts, staleDiffs)

\* a start on a disk without diff images
startOf(scenarioCounts, workerCounts, retryCounts) ==
  startOn(scenarioCounts, workerCounts, retryCounts, {FALSE})

InitPool == startOf(1..MaxScenarios, 1..MaxWorkers, PoolRetries)

\* a start on a disk that holds the diff images of earlier runs
InitStale == startOn(1..MaxScenarios, 1..MaxWorkers, PoolRetries, {TRUE})

\* generate-baseline.ts cleanBaselineDirectory: unlink every .png file of
\* the baseline directory
cleanBaselineDirectory(disk) ==
  IF dirExists(disk, baselineDir)
    THEN [disk EXCEPT !.files = [q \in {p \in DOMAIN disk.files : p.dir # baselineDir}
                                   |-> disk.files[q]]]
  ELSE disk

\* the entry of runs of a command that has just started on disk
started(disk) ==
  [options |-> options, before |-> disk, results |-> <<>>, exitCode |-> -1,
   after |-> disk]

\* runs once the current command has exited with exitCode
exited(exitCode) ==
  [runs EXCEPT ![Len(runs)] = [@ EXCEPT !.results = results, !.exitCode = exitCode,
                                        !.after = fs]]

\* generateBaseline cleans the baseline directory unless it runs with
\* --failed; then await screenshotService.initialize() of runTests /
\* generateBaseline
InitializeWith(cleans) ==
  /\ phase = "loaded"
  /\ phase' = "start"
  /\ fs' = IF cleans THEN cleanBaselineDirectory(fs) ELSE fs
  /\ service' = IF service.browser = 0 THEN launched(service) ELSE service
  /\ runs' = Append(runs, started(fs))
  /\ UNCHANGED <<config, engineVars, outcome, options, payload, tasks, counters,
                 results, captureResults, pool, summary, claims, retried>>

\* a command without the --failed flag
Initialize == InitializeWith(options.command = "generate-baseline")

\* runTests: comparisonService.cleanDiffs() throws after initialize() and
\* before the try/finally that closes the browser; the catch of runTests
\* prints the error and calls process.exit(1)
CleanDiffsThrows ==
  /\ phase = "start" /\ options.command = "run-tests"
  /\ cleanDiffsThrows(fs)
  /\ phase' = "exited"
  /\ outcome' = [NoOutcome EXCEPT !.exitCode = 1]
  /\ runs' = exited(1)
  /\ UNCHANGED <<fs, config, engineVars, service, options, payload, tasks, counters,
                 results, captureResults, pool, summary, claims, retried>>

\* runTests after initialize(): cleanDiffs, the task queue and the results
\* of unresolved viewport keys, then the launch of the workers, each of
\* which claims its first index before the next one is created.
\* captureAll: the task queue and the launch of its workers.
Launch ==
  /\ phase = "start"
  /\ options.command = "run-tests" => ~cleanDiffsThrows(fs)
  /\ LET queue == buildTasks(payload)
         n == numWorkers(config.workers, Len(queue))
         idx(w) == claimedIndex(w - 1)
     IN /\ tasks' = queue
        /\ results' = IF options.command = "run-tests"
                        THEN missingViewportResults(payload) ELSE <<>>
        /\ fs' = IF options.command = "run-tests" THEN cleanDiffs(fs) ELSE fs
        /\ counters' = [NoCounters EXCEPT !.taskIndex = n]
        /\ pool' = [w \in Workers |->
                      IF w > n THEN Idle
                      ELSE IF idx(w) >= Len(queue) THEN [Idle EXCEPT !.pc = "done"]
                      ELSE [pc |-> "capturing", task |-> idx(w), attempt |-> 0,
                            calls |-> 1, delays |-> 0, lastError |-> -1]]
        /\ claims' = [i \in 0..(Len(queue) - 1) |->
                        Cardinality({w \in 1..n : idx(w) = i})]
        /\ phase' = "workers"
  /\ UNCHANGED <<config, engineVars, lifeVars, options, payload, summary, retried, captureResults>>

\* counters that count a task as completed only when it passed
countersAfter_CompletedOnPass(c, passed) ==
  [c EXCEPT !.completed = @ + (IF passed THEN 1 ELSE 0),
            !.passed = @ + (IF passed THEN 1 ELSE 0),
            !.failed = @ + (IF passed THEN 0 ELSE 1)]

\* processTask: counters.completed++; if (testResult.passed)
\* counters.passed++ else counters.failed++
countersAfter(c, passed) ==
  [c EXCEPT !.completed = @ + 1,
            !.passed = @ + (IF passed THEN 1 ELSE 0),
            !.failed = @ + (IF passed THEN 0 ELSE 1)]

\* the end of a round of processTask: counters, results.push, and the
\* claim of the next index in the same run
finishTaskWith(w, testResult, fs2, log, svc) ==
  LET taskIdx == claimedIndex(counters.taskIndex)
  IN /\ counters' = [countersAfter(counters, testResult.passed)
                       EXCEPT !.taskIndex = @ + 1]
     /\ results' = Append(results, testResult)
     /\ pool' = [pool EXCEPT ![w] = resume(~testResult.passed, taskIdx)]
     /\ claims' = claimed(claims, taskIdx)
     /\ fs' = fs2
     /\ retried' = retried \cup log
     /\ service' = svc
     /\ UNCHANGED <<config, engineVars, outcome, runs, options, payload, phase, tasks,
                    summary, captureResults>>

\* the round of a task whose capture left the service as it found it
finishTask(w, testResult, fs2, log) == finishTaskWith(w, testResult, fs2, log, service)

\* the outcome of the captureWithRetry call of worker w: the calls of
\* captureScreenshot and the delays it made, whether it threw, and the
\* attempt whose error it threw
retryRecord(w, threw) ==
  {[calls |-> pool[w].calls, delays |-> pool[w].delays, threw |-> threw,
    errorOf |-> IF threw THEN pool[w].attempt ELSE -1]}

BaselineNotFoundInRun ==
  "Baseline not found. Run generate-baseline first or use --update-baseline."

CaptureFailed == "page.goto: Timeout exceeded"

\* a processTask that refreshes the baseline after every comparison
updatesBaseline_EveryOutcome(opts, comparisonResult) ==
  opts.updateBaseline

\* processTask: if (options.updateBaseline && comparisonResult.passed)
updatesBaseline(opts, comparisonResult) ==
  opts.updateBaseline /\ comparisonResult.passed

\* an attempt of captureWithRetry resolves with a screenshot: processTask
\* goes on to the baseline check and either finishes the task or awaits
\* compareScreenshot
CaptureSucceeds(w) ==
  /\ phase = "workers" /\ options.command = "run-tests"
  /\ pool[w].pc = "capturing"
  /\ \E img \in {pageOf(taskOf(w).scenario)} :
       LET t == taskOf(w)
           id == scenarioId(payload, t)
           screenshotPath == screenshotPathOf(outputDir, t)
           fs1 == writeFile(ensureDirectoryExists(fs, outputDir), screenshotPath, img)
           copied == copyToBaseline(fs1, screenshotPath, id, t.viewportKey)
       IN IF ~baselineExists(fs1, id, t.viewportKey)
            THEN IF options.updateBaseline
                   THEN finishTask(w,
                          IF copied.threw
                            THEN TestResult(id, t.viewportKey, FALSE, Undefined,
                                            Undefined, "ENOENT", NoText, NoPath, NoPath,
                                            NoPath)
                          ELSE TestResult(id, t.viewportKey, TRUE, Undefined, Undefined,
                                          NoText, NoText, screenshotPath,
                                          getBaselinePath(id, t.viewportKey), NoPath),
                          copied.fs, retryRecord(w, FALSE))
                 ELSE finishTask(w,
                        TestResult(id, t.viewportKey, FALSE, Undefined, Undefined,
                                   BaselineNotFoundInRun, NoText, screenshotPath, NoPath,
                                   NoPath),
                        fs1, retryRecord(w, FALSE))
          ELSE /\ pool' = [pool EXCEPT ![w].pc = "comparing"]
               /\ fs' = fs1
               /\ retried' = retried \cup retryRecord(w, FALSE)
               /\ UNCHANGED <<config, engineVars, lifeVars, options, payload, phase, tasks,
                              counters, results, captureResults, summary, claims>>

\* an attempt of captureWithRetry throws: wait retryDelay when attempts
\* remain, else rethrow into the catch of processTask
CaptureFails(w) ==
  /\ phase = "workers" /\ options.command = "run-tests"
  /\ pool[w].pc = "capturing"
  /\ LET t == taskOf(w)
     IN IF retryAgain(pool[w].attempt, config.maxRetries)
          THEN /\ pool' = [pool EXCEPT ![w].pc = "delaying",
                                       ![w].delays = @ + 1,
                                       ![w].lastError = pool[w].attempt]
               /\ UNCHANGED <<fs, config, engineVars, lifeVars, options, payload, phase, tasks,
                              counters, results, captureResults, summary, claims,
                              retried>>
        ELSE finishTask(w,
               TestResult(scenarioId(payload, t), t.viewportKey, FALSE, Undefined,
                          Undefined, CaptureFailed, NoText, NoPath, NoPath, NoPath),
               fs, retryRecord(w, TRUE))

\* the retryDelay timer fires: the next attempt calls captureScreenshot
RetryDelayElapsed(w) ==
  /\ phase = "workers"
  /\ pool[w].pc = "delaying"
  /\ pool' = [pool EXCEPT ![w].pc = "capturing", ![w].attempt = @ + 1,
                          ![w].calls = @ + 1]
  /\ UNCHANGED <<fs, config, engineVars, lifeVars, options, payload, phase, tasks, counters,
                 results, captureResults, summary, claims, retried>>

\* the awaited compareScreenshot resolves; the baseline is replaced on a
\* pass under --update-baseline
CompareResolved(w) ==
  /\ phase = "workers"
  /\ pool[w].pc = "comparing"
  /\ LET t == taskOf(w)
         id == scenarioId(payload, t)
         screenshotPath == screenshotPathOf(outputDir, t)
         out == compareScreenshot(revision, fs, config, id, t.viewportKey, screenshotPath)
         copied == copyToBaseline(out.fs, screenshotPath, id, t.viewportKey)
     IN IF updatesBaseline(options, out.result)
          THEN finishTask(w,
                 IF copied.threw
                   THEN TestResult(id, t.viewportKey, FALSE, Undefined, Undefined,
                                   "ENOENT", NoText, NoPath, NoPath, NoPath)
                 ELSE out.result,
                 copied.fs, {})
        ELSE finishTask(w, out.result, out.fs, {})

\* a join that resolves as soon as one worker has returned
settled_Race(workers) ==
  \E w \in DOMAIN workers : workers[w].pc = "done"

\* await Promise.all(workers): every worker launched has returned
settled(workers) ==
  \A w \in DOMAIN workers : workers[w].pc \in {"idle", "done"}

\* the last path set under key among the outcomes of crs in keep
lastPath(crs, keep, key) ==
  LET at == {i \in keep : crs[i].key = key}
  IN crs[CHOOSE i \in at : \A j \in at : j <= i].path

\* a map that gets an entry for every outcome, failed or not
captureAllResults_EveryOutcome(crs) ==
  [key \in {crs[i].key : i \in DOMAIN crs} |-> lastPath(crs, DOMAIN crs, key)]

\* captureAll: for (const result of captureResults) if (!result.error &&
\* result.path) results.set(result.key, result.path)
captureAllResults(crs) ==
  LET ok == {i \in DOMAIN crs : crs[i].error = NoText /\ crs[i].path # NoPath}
  IN [key \in {crs[i].key : i \in ok} |-> lastPath(crs, ok, key)]

\* Promise.all(workers) resolves and the finally block closes the browser;
\* the summary is the one computed from results once close() has resolved
Join ==
  /\ phase = "workers"
  /\ settled(pool)
  /\ phase' = "joined"
  /\ summary' = IF options.command = "run-tests"
                  THEN [total |-> Len(results),
                        passed |-> Cardinality({i \in DOMAIN results : results[i].passed}),
                        failed |-> Cardinality({i \in DOMAIN results : ~results[i].passed})]
                ELSE LET captured == Cardinality(DOMAIN captureAllResults(captureResults))
                         totalScreenshots == Len(PairsOf(payload.scenarios, 1))
                     IN [total |-> totalScreenshots,
                         passed |-> captured,
                         failed |-> totalScreenshots - captured]
  /\ service' = close(service)
  /\ UNCHANGED <<fs, config, engineVars, outcome, runs, options, payload, tasks, counters,
                 results, captureResults, pool, claims, retried>>

\* a failed-tests list that stops at the first result that passed
failedTestsOf_UntilPass(rs) ==
  {[scenarioId |-> rs[i].scenarioId, viewport |-> rs[i].viewport] :
     i \in {j \in DOMAIN rs : \A k \in 1..j : ~rs[k].passed}}

\* the { scenarioId, viewport } entries saved for the --failed flag
failedTestsOf(rs) ==
  {[scenarioId |-> rs[i].scenarioId, viewport |-> rs[i].viewport] :
     i \in {j \in DOMAIN rs : ~rs[j].passed}}

\* an exit status that signals failure only when nothing passed
exitCodeOf_NothingPassed(s) == IF s.passed = 0 THEN 1 ELSE 0

\* if (summary.failed > 0) { process.exit(1) }, else the command returns
exitCodeOf(s) == IF s.failed > 0 THEN 1 ELSE 0

\* close() has resolved. runTests: the failed-tests file is saved or
\* cleared, the report generated and the results printed, then
\* process.exit(1) if summary.failed > 0. generateBaseline: the counts are
\* printed, then process.exit(1) if failed > 0.
ExitWith(disk) ==
  /\ phase = "joined"
  /\ phase' = "exited"
  /\ LET exitCode == exitCodeOf(summary)
     IN /\ outcome' =
             IF options.command = "run-tests"
               THEN [exitCode |-> exitCode,
                     failedTests |-> failedTestsOf(results),
                     failedFile |-> IF failedTestsOf(results) # {} THEN "saved"
                                    ELSE "cleared",
                     reported |-> Len(results)]
             ELSE [NoOutcome EXCEPT !.exitCode = exitCode]
        /\ runs' = [exited(exitCode) EXCEPT ![Len(runs)].after = disk]
  /\ fs' = disk
  /\ UNCHANGED <<config, engineVars, service, options, payload, tasks, counters,
                 results, captureResults, pool, summary, claims, retried>>

\* the exit of a command on a disk whose failed-tests file is not followed
Exit == ExitWith(fs)

\* the end of a round of the captureAll worker: results.push,
\* ++completedCount, and the claim of the next index in the same run
finishCaptureWith(w, captureResult, fs2, svc) ==
  LET taskIdx == claimedIndex(counters.taskIndex)
  IN /\ counters' = [counters EXCEPT !.completed = @ + 1, !.taskIndex = @ + 1]
     /\ captureResults' = Append(captureResults, captureResult)
     /\ pool' = [pool EXCEPT ![w] = resume(captureResult.error # NoText, taskIdx)]
     /\ claims' = claimed(claims, taskIdx)
     /\ fs' = fs2
     /\ service' = svc
     /\ UNCHANGED <<config, engineVars, outcome, runs, options, payload, phase, tasks,
                    results, summary, retried>>

\* the round of a capture that left the service as it found it
finishCapture(w, captureResult, fs2) == finishCaptureWith(w, captureResult, fs2, service)

\* const key = `${task.scenario.id}__${task.viewport.machine_name}`
captureKey(t) == scenarioId(payload, t) \o Separator \o t.viewportKey

\* captureAll worker: the awaited captureScreenshot resolves
WorkerCaptured(w) ==
  /\ phase = "workers" /\ options.command = "generate-baseline"
  /\ pool[w].pc = "capturing"
  /\ LET t == taskOf(w)
         screenshotPath == screenshotPathOf(baselineDir, t)
     IN finishCapture(w,
          [key |-> captureKey(t), path |-> screenshotPath, index |-> pool[w].task,
           error |-> NoText],
          writeFile(ensureDirectoryExists(fs, baselineDir), screenshotPath, BaselinePage))

\* captureAll worker: the awaited captureScreenshot throws
WorkerCaptureFailed(w) ==
  /\ phase = "workers" /\ options.command = "generate-baseline"
  /\ pool[w].pc = "capturing"
  /\ finishCapture(w,
       [key |-> captureKey(taskOf(w)), path |-> NoPath, index |-> pool[w].task,
        error |-> CaptureFailed],
       fs)

Next ==
  \/ Initialize
  \/ CleanDiffsThrows
  \/ Launch
  \/ \E w \in Workers : CaptureSucceeds(w)
  \/ \E w \in Workers : CaptureFails(w)
  \/ \E w \in Workers : RetryDelayElapsed(w)
  \/ \E w \in Workers : CompareResolved(w)
  \/ \E w \in Workers : WorkerCaptured(w)
  \/ \E w \in Workers : WorkerCaptureFailed(w)
  \/ Join
  \/ Exit

Spec == InitPool /\ [][Next]_vars

SpecStale == InitStale /\ [][Next]_vars

\* payloads of two scenarios with one viewport key each: ids that differ
\* in a character generateFilename replaces, and ids that do not
ClashingScenarios ==
  {[i \in 1..2 |-> [id |-> ids[i], viewport_keys |-> <<Desktop>>]] :
     ids \in {<<<<"a", ".">>, <<"a", "_">>>>, <<<<"a", ".">>, <<"a", "a">>>>}}

InitClash == startFrom(ClashingScenarios, 1..MaxWorkers, PoolRetries, {FALSE})

SpecClash == InitClash /\ [][Next]_vars

(***************************************************************************)
(* The baseline lifecycle: commands run one after the other on one disk.   *)
(***************************************************************************)
\* the command line of a run
Commands ==
  {[command |-> "run-tests", updateBaseline |-> FALSE],
   [command |-> "run-tests", updateBaseline |-> TRUE],
   [command |-> "generate-baseline", updateBaseline |-> FALSE]}

\* the process has exited and the user starts the next command: a new
\* process and a new ScreenshotService on the disk the last one left
Rerun ==
  /\ phase = "exited"
  /\ Len(runs) < MaxRuns
  /\ options' \in Commands
  /\ phase' = "loaded"
  /\ service' = NoService
  /\ outcome' = NoOutcome
  /\ tasks' = <<>>
  /\ counters' = NoCounters
  /\ results' = <<>>
  /\ captureResults' = <<>>
  /\ pool' = [w \in Workers |-> Idle]
  /\ summary' = NoSummary
  /\ claims' = <<>>
  /\ retried' = {}
  /\ UNCHANGED <<fs, config, engineVars, payload, runs>>

InitLifecycle == startOf({1}, {1}, PoolRetries)

NextLifecycle == Next \/ Rerun

SpecLifecycle == InitLifecycle /\ [][NextLifecycle]_vars

\* one scenario and one worker, under every retries.maxRetries
InitRetry == startOf({1}, {1}, 0..MaxRetriesBound)

SpecRetry == InitRetry /\ [][Next]_vars

(***************************************************************************)
(* Commands with the --failed flag.  The disk holds the failed-tests file  *)
(* (.vrt-failed.json of the working directory) as fs.failedFile; before    *)
(* the fetch, payload is what the API serves; call records the fetch.      *)
(***************************************************************************)
\* the failed-tests file: absent, not parseable as JSON, or the tests saved
NoFailedFile == [state |-> "missing", tests |-> {}]

UnreadableFailedFile == [state |-> "unreadable", tests |-> {}]

\* a save that adds the tests to those the file holds
saveFailedTests_Merged(disk, tests) ==
  [disk EXCEPT !.failedFile = [state |-> "saved", tests |-> tests \cup @.tests]]

\* failed-tracker.ts saveFailedTests
saveFailedTests(disk, tests) == [disk EXCEPT !.failedFile = [state |-> "saved", tests |-> tests]]

\* failed-tracker.ts clearFailedTests
clearFailedTests(disk) == [disk EXCEPT !.failedFile = NoFailedFile]

\* failed-tracker.ts loadFailedTests: [] when the file is missing or when
\* reading or parsing it throws
loadFailedTests(disk) ==
  IF disk.failedFile.state = "saved" THEN disk.failedFile.tests ELSE {}

\* String.prototype.includes
includes(s, sub) ==
  \E i \in 0..(Len(s) - Len(sub)) : SubSeq(s, i + 1, i + Len(sub)) = sub

\* a filter that stops at the first scenario it keeps
fetchFilteredScenarios_FirstMatch(pl, scenarioIds) ==
  LET kept == {i \in DOMAIN pl.scenarios :
                 \E id \in scenarioIds : pl.scenarios[i].id = id \/ includes(pl.scenarios[i].id, id)}
  IN IF scenarioIds = {} \/ kept = {} THEN [pl EXCEPT !.scenarios = IF scenarioIds = {} THEN @ ELSE <<>>]
     ELSE [pl EXCEPT !.scenarios = <<pl.scenarios[CHOOSE i \in kept : \A j \in kept : i <= j]>>]

\* ApiService.fetchFilteredScenarios without a viewport filter: the
\* scenarios whose id equals or contains one of scenarioIds (the title of a
\* scenario of these payloads is its id)
fetchFilteredScenarios(pl, scenarioIds) ==
  LET kept == {i \in DOMAIN pl.scenarios :
                 \E id \in scenarioIds : pl.scenarios[i].id = id \/ includes(pl.scenarios[i].id, id)}
      positions == SelectSeqBy([i \in DOMAIN pl.scenarios |-> i], kept)
  IN IF scenarioIds = {} THEN pl
     ELSE [pl EXCEPT !.scenarios = [k \in DOMAIN positions |-> pl.scenarios[positions[k]]]]

\* the command lines with and without --failed
FailedCommands ==
  [command : {"run-tests", "generate-baseline"}, updateBaseline : {FALSE}, failed : BOOLEAN]

\* the (scenarioId, viewport) pairs a failed-tests file may hold: pairs of
\* the payload and a pair of a scenario the API no longer serves
RecordedPairs ==
  {[scenarioId |-> PoolId(1), viewport |-> Desktop],
   [scenarioId |-> PoolId(1), viewport |-> Mobile],
   [scenarioId |-> PoolId(2), viewport |-> Desktop],
   [scenarioId |-> PoolId(3), viewport |-> Desktop]}

FailedFiles ==
  {NoFailedFile, UnreadableFailedFile}
    \cup {[state |-> "saved", tests |-> tests] :
            tests \in {x \in SUBSET RecordedPairs : Cardinality(x) <= MaxKeyed}}

\* the scenarios the API serves
ServedScenarios == [i \in 1..2 |-> [id |-> PoolId(i), viewport_keys |-> keysOf(i)]]

\* a command is invoked on a disk with every baseline generated
InitFailedFlag ==
  /\ revision = "odiff"
  /\ subject = [id |-> <<"a">>, key |-> <<"a">>]
  /\ call = NoCall
  /\ keyed = <<>>
  /\ options \in FailedCommands
  /\ config = [TolerantConfig EXCEPT !.maxRetries = 1]
  /\ payload \in [scenarios : {ServedScenarios}, viewports : {{Desktop, Mobile}, {Desktop}}]
  /\ \E failedFile \in FailedFiles :
       fs = [dirs |-> {baselineDir},
             files |-> [q \in {getBaselinePath(scenarioId(payload, t), t.viewportKey) :
                                 t \in Range(PairsOf(payload.scenarios, 1))}
                          |-> BaselinePage],
             failedFile |-> failedFile]
  /\ phase = "invoked"
  /\ service = NoService
  /\ outcome = NoOutcome
  /\ runs = <<>>
  /\ tasks = <<>>
  /\ counters = NoCounters
  /\ results = <<>>
  /\ captureResults = <<>>
  /\ pool = [w \in Workers |-> Idle]
  /\ summary = NoSummary
  /\ claims = <<>>
  /\ retried = {}

\* the command returns before anything is initialized
returns ==
  /\ phase' = "exited"
  /\ outcome' = [NoOutcome EXCEPT !.exitCode = 0]
  /\ runs' = Append(runs, [started(fs) EXCEPT !.exitCode = 0])

\* runTests / generateBaseline up to the check of payload.scenarios.length:
\* the --failed handling and the fetch
HandleFailedFlag ==
  /\ phase = "invoked"
  /\ LET failedTests == loadFailedTests(fs)
         scenarioFilter == IF options.failed THEN {t.scenarioId : t \in failedTests} ELSE {}
         filtered == fetchFilteredScenarios(payload, scenarioFilter)
     IN IF options.failed /\ failedTests = {}
          THEN returns /\ UNCHANGED <<payload, call>>
        ELSE /\ call' = [NoCall EXCEPT !.op = "fetchScenarios", !.calls = 1]
             /\ payload' = filtered
             /\ IF Len(filtered.scenarios) = 0 THEN returns
                ELSE phase' = "loaded" /\ UNCHANGED <<outcome, runs>>
  /\ UNCHANGED <<fs, config, revision, subject, keyed, service, options, tasks, counters,
                 results, captureResults, pool, summary, claims, retried>>

\* a generateBaseline that cleans the baseline directory in every mode
cleansBaselines_EveryMode(opts) ==
  opts.command = "generate-baseline"

\* generateBaseline: if (!isFailedMode) cleanBaselineDirectory(...)
cleansBaselines(opts) ==
  opts.command = "generate-baseline" /\ ~opts.failed

\* the clean of the baseline directory, skipped with --failed, and initialize()
InitializeFailedFlag == InitializeWith(cleansBaselines(options))

\* the failed-tests file a command leaves: runTests saves the failed tests
\* or clears the file; generateBaseline clears it in --failed mode after
\* process.exit(1) was not taken
failedFileAfter(disk) ==
  IF options.command = "run-tests"
    THEN IF failedTestsOf(results) # {} THEN saveFailedTests(disk, failedTestsOf(results))
         ELSE clearFailedTests(disk)
  ELSE IF exitCodeOf(summary) = 0 /\ options.failed THEN clearFailedTests(disk)
  ELSE disk

ExitFailedFlag == ExitWith(failedFileAfter(fs))

NextFailedFlag ==
  \/ HandleFailedFlag
  \/ InitializeFailedFlag
  \/ Launch
  \/ \E w \in Workers : CaptureSucceeds(w)
  \/ \E w \in Workers : CaptureFails(w)
  \/ \E w \in Workers : RetryDelayElapsed(w)
  \/ \E w \in Workers : CompareResolved(w)
  \/ \E w \in Workers : WorkerCaptured(w)
  \/ \E w \in Workers : WorkerCaptureFailed(w)
  \/ Join
  \/ ExitFailedFlag

SpecFailedFlag == InitFailedFlag /\ [][NextFailedFlag]_vars

(***************************************************************************)
(* The pool under the assumption that some worker goes on whenever one     *)
(* can: a worker may stay suspended at its await for as long as another    *)
(* worker has a step to take.                                              *)
(***************************************************************************)
\* an await of worker w settles and w runs to its next await
WorkerStep(w) ==
  \/ CaptureSucceeds(w)
  \/ CaptureFails(w)
  \/ RetryDelayElapsed(w)
  \/ CompareResolved(w)
  \/ WorkerCaptured(w)
  \/ WorkerCaptureFailed(w)

\* the largest payload on two workers, every viewport key resolved, a failed
\* capture retried once, the ODiff revision
InitProgress ==
  /\ startOf({MaxScenarios}, {2}, PoolRetries)
  /\ payload.viewports = {Desktop, Mobile}
  /\ revision = "odiff"
  /\ ~options.updateBaseline

SpecProgress ==
  InitProgress /\ [][Next]_vars /\ WF_vars(\E w \in Workers : WorkerStep(w))

(***************************************************************************)
(* The ScreenshotService on its own: callers that call initialize(),       *)
(* close() and captureWithRetry() in any order, overlapping at the awaits. *)
(* pool[w] is the position of caller w: the await it is suspended at.      *)
(***************************************************************************)
BrowserNotInitialized == "Browser not initialized. Call initialize() first."

NewContextFailed == "browser.newContext: Target closed"

NewPageFailed == "context.newPage: Target closed"

ScreenshotFailed == "page.screenshot: Timeout exceeded"

InteractionFailed == "page.click: Timeout exceeded"

\* a caller outside every method of the service
Resting == [pc |-> "idle", attempt |-> 0, calls |-> 0, lastError |-> NoText]

\* the awaits of captureScreenshot at which the caller owns a context
ContextSteps == {"newPage", "goto", "screenshot"}

InFlight(w) == pool[w].pc \in {"newContext"} \cup ContextSteps

\* a captureScreenshot that creates the output directory before it looks
\* at the browser
captureStart_DirectoryFirst(svc, disk) ==
  [threw |-> svc.browser = 0, fs |-> ensureDirectoryExists(disk, outputDir)]

\* captureScreenshot up to its first await: if (!this.browser) throw new
\* Error('Browser not initialized...'); this.ensureDirectoryExists(outputDir)
captureStart(svc, disk) ==
  IF svc.browser = 0 THEN [threw |-> TRUE, fs |-> disk]
  ELSE [threw |-> FALSE, fs |-> ensureDirectoryExists(disk, outputDir)]

InitService ==
  /\ fs = EmptyFs
  /\ config \in [maxDiffPixels : {TolerantConfig.maxDiffPixels},
                 maxDiffPixelRatio : {TolerantConfig.maxDiffPixelRatio},
                 workers : {1}, maxRetries : 0..1]
  /\ revision = "odiff"
  /\ subject = [id |-> <<"a">>, key |-> <<"a">>]
  /\ call = NoCall
  /\ keyed = <<>>
  /\ options = [command |-> "none", updateBaseline |-> FALSE]
  /\ payload = [scenarios |-> <<>>, viewports |-> {}]
  /\ phase = "service"
  /\ tasks = <<>>
  /\ counters = NoCounters
  /\ results = <<>>
  /\ captureResults = <<>>
  /\ pool = [w \in Workers |-> Resting]
  /\ summary = NoSummary
  /\ claims = <<>>
  /\ retried = {}
  /\ service = NoService
  /\ outcome = NoOutcome
  /\ runs = <<>>

serviceFrame == <<config, revision, subject, keyed, options, payload, phase, tasks, counters,
                  results, captureResults, summary, claims, retried, outcome, runs>>

\* the end of a method of the service as call records it
Ended(op, error, calls, path) ==
  [NoCall EXCEPT !.op = op, !.result = [NoResult EXCEPT !.error = error],
                 !.calls = calls, !.threw = error # NoText, !.path = path]

\* initialize(): if (!this.browser) the launch is awaited, else it returns
InitializeCall(w) ==
  /\ phase = "service" /\ pool[w].pc = "idle"
  /\ IF service.browser = 0
       THEN /\ service.launches + service.pending < MaxLaunches
            /\ pool' = [pool EXCEPT ![w].pc = "launch"]
            /\ service' = [service EXCEPT !.pending = @ + 1]
            /\ UNCHANGED call
     ELSE /\ call' = Ended("initialize", NoText, 0, NoPath)
          /\ call' # call
          /\ UNCHANGED <<pool, service>>
  /\ UNCHANGED <<fs, serviceFrame>>

\* chromium.launch() resolves: this.browser = the browser just launched
LaunchResolved(w) ==
  /\ phase = "service" /\ pool[w].pc = "launch"
  /\ service' = [launched(service) EXCEPT !.pending = @ - 1]
  /\ pool' = [pool EXCEPT ![w] = Resting]
  /\ call' = Ended("initialize", NoText, 1, NoPath)
  /\ UNCHANGED <<fs, serviceFrame>>

\* close(), called while no capture is in flight; the contexts of a
\* browser die with it
CloseCall(w) ==
  /\ phase = "service" /\ pool[w].pc = "idle"
  /\ \A v \in Workers : ~InFlight(v)
  /\ service' = IF service.browser # 0 THEN [close(service) EXCEPT !.contexts = 0]
                ELSE service
  /\ call' = Ended("close", NoText, IF service.browser # 0 THEN 1 ELSE 0, NoPath)
  /\ <<service', call'>> # <<service, call>>
  /\ UNCHANGED <<fs, pool, serviceFrame>>

\* the catch of captureWithRetry after the attempt of caller w threw error
\* and left svc and disk: wait retryDelay if attempts remain, else throw
\* lastError, which is the error of the attempt that has just failed
attemptThrew(w, error, svc, disk) ==
  /\ service' = svc
  /\ fs' = disk
  /\ IF retryAgain(pool[w].attempt, config.maxRetries)
       THEN /\ pool' = [pool EXCEPT ![w].pc = "delay"]
            /\ call' = Ended("captureScreenshot", error, pool[w].calls, NoPath)
     ELSE /\ pool' = [pool EXCEPT ![w] = Resting]
          /\ call' = Ended("captureWithRetry", error, pool[w].calls, NoPath)
  /\ UNCHANGED serviceFrame

\* caller w, its record being me, enters captureScreenshot
attempt(w, me) ==
  LET start == captureStart(service, fs)
  IN IF start.threw
       THEN /\ service' = service
            /\ fs' = start.fs
            /\ IF retryAgain(me.attempt, config.maxRetries)
                 THEN /\ pool' = [pool EXCEPT ![w] = [me EXCEPT !.pc = "delay"]]
                      /\ call' = Ended("captureScreenshot", BrowserNotInitialized,
                                       me.calls, NoPath)
               ELSE /\ pool' = [pool EXCEPT ![w] = Resting]
                    /\ call' = Ended("captureWithRetry", BrowserNotInitialized,
                                     me.calls, NoPath)
            /\ UNCHANGED serviceFrame
     ELSE /\ fs' = start.fs
          /\ pool' = [pool EXCEPT ![w] = [me EXCEPT !.pc = "newContext"]]
          /\ UNCHANGED <<service, call, serviceFrame>>

\* captureWithRetry(scenario, viewport, outputDir): the first attempt
CaptureCall(w) ==
  /\ phase = "service" /\ pool[w].pc = "idle"
  /\ attempt(w, [Resting EXCEPT !.calls = 1])

\* the retryDelay timer fires: the next attempt
DelayElapsed(w) ==
  /\ phase = "service" /\ pool[w].pc = "delay"
  /\ attempt(w, [pool[w] EXCEPT !.attempt = @ + 1, !.calls = @ + 1])

\* await this.browser.newContext(...) resolves
ContextCreated(w) ==
  /\ phase = "service" /\ pool[w].pc = "newContext"
  /\ service' = [service EXCEPT !.contexts = @ + 1]
  /\ pool' = [pool EXCEPT ![w].pc = "newPage"]
  /\ UNCHANGED <<fs, call, serviceFrame>>

\* await this.browser.newContext(...) throws
ContextFails(w) ==
  /\ phase = "service" /\ pool[w].pc = "newContext"
  /\ attemptThrew(w, NewContextFailed, service, fs)

\* await context.newPage() resolves: the try block is entered
PageCreated(w) ==
  /\ phase = "service" /\ pool[w].pc = "newPage"
  /\ pool' = [pool EXCEPT ![w].pc = "goto"]
  /\ UNCHANGED <<fs, call, service, serviceFrame>>

\* await context.newPage() throws, before the try block: no finally runs
PageFails(w) ==
  /\ phase = "service" /\ pool[w].pc = "newPage"
  /\ service.contexts - Cardinality({v \in Workers : pool[v].pc \in ContextSteps})
       < MaxPageFailures
  /\ attemptThrew(w, NewPageFailed, service, fs)

\* the context as the finally block leaves it: await context.close()
contextClosed(svc) == [svc EXCEPT !.contexts = @ - 1]

\* page.goto resolves: stabilisation, interactions, then page.screenshot
Navigated(w) ==
  /\ phase = "service" /\ pool[w].pc = "goto"
  /\ pool' = [pool EXCEPT ![w].pc = "screenshot"]
  /\ UNCHANGED <<fs, call, service, serviceFrame>>

\* page.goto throws inside the try block
NavigationFails(w) ==
  /\ phase = "service" /\ pool[w].pc = "goto"
  /\ attemptThrew(w, CaptureFailed, contextClosed(service), fs)

\* a stabilisation step, an interaction or page.screenshot throws
ScreenshotFails(w) ==
  /\ phase = "service" /\ pool[w].pc = "screenshot"
  /\ attemptThrew(w, ScreenshotFailed, contextClosed(service), fs)

\* page.screenshot resolves: the file is written, the context closed and
\* the path returned through captureWithRetry
Captured(w) ==
  /\ phase = "service" /\ pool[w].pc = "screenshot"
  /\ fs' = writeFile(fs, candidatePath, BaselinePage)
  /\ service' = contextClosed(service)
  /\ pool' = [pool EXCEPT ![w] = Resting]
  /\ call' = Ended("captureWithRetry", NoText, pool[w].calls, candidatePath)
  /\ UNCHANGED serviceFrame

NextService ==
  \/ \E w \in Workers : InitializeCall(w)
  \/ \E w \in Workers : LaunchResolved(w)
  \/ \E w \in Workers : CloseCall(w)
  \/ \E w \in Workers : CaptureCall(w)
  \/ \E w \in Workers : DelayElapsed(w)
  \/ \E w \in Workers : ContextCreated(w)
  \/ \E w \in Workers : ContextFails(w)
  \/ \E w \in Workers : PageCreated(w)
  \/ \E w \in Workers : PageFails(w)
  \/ \E w \in Workers : Navigated(w)
  \/ \E w \in Workers : NavigationFails(w)
  \/ \E w \in Workers : ScreenshotFails(w)
  \/ \E w \in Workers : Captured(w)

SpecService == InitService /\ [][NextService]_vars

(***************************************************************************)
(* The pools with captures that fail at context.newPage(): the context of  *)
(* the attempt is left open (service.contexts counts the contexts no       *)
(* capture in flight owns).                                                *)
(***************************************************************************)
\* captureScreenshot left by a rejected context.newPage(), before the try
leaked(svc) == [svc EXCEPT !.contexts = @ + 1]

\* the attempt of worker w throws at context.newPage(): captureWithRetry
\* waits and retries or rethrows into the catch of processTask; the
\* captureAll worker records the error
PageCreationFails(w) ==
  /\ phase = "workers" /\ pool[w].pc = "capturing"
  /\ service.contexts < MaxPageFailures
  /\ LET t == taskOf(w)
     IN IF options.command = "generate-baseline"
          THEN finishCaptureWith(w,
                 [key |-> captureKey(t), path |-> NoPath, index |-> pool[w].task,
                  error |-> NewPageFailed],
                 fs, leaked(service))
        ELSE IF retryAgain(pool[w].attempt, config.maxRetries)
          THEN /\ pool' = [pool EXCEPT ![w].pc = "delaying",
                                       ![w].delays = @ + 1,
                                       ![w].lastError = pool[w].attempt]
               /\ service' = leaked(service)
               /\ UNCHANGED <<fs, config, engineVars, outcome, runs, options, payload,
                              phase, tasks, counters, results, captureResults, summary,
                              claims, retried>>
        ELSE finishTaskWith(w,
               TestResult(scenarioId(payload, t), t.viewportKey, FALSE, Undefined,
                          Undefined, NewPageFailed, NoText, NoPath, NoPath, NoPath),
               fs, retryRecord(w, TRUE), leaked(service))

\* one scenario, one worker
InitLeak == startOf({1}, {1}, PoolRetries)

NextLeak ==
  \/ Next
  \/ \E w \in Workers : PageCreationFails(w)

SpecLeak == InitLeak /\ [][NextLeak]_vars

(***************************************************************************)
(* executeInteractions: the page calls it awaits, in the order it awaits   *)
(* them. A selector that matches nothing makes click, fill and hover       *)
(* reject when their timeout is reached. wait_ms and value are null when   *)
(* absent: NullMs and NullValue.                                           *)
(***************************************************************************)
NullMs == 0 - 1

NullValue == "null"

\* a selector that matches nothing on the page
GoneSelector == "#gone"

InteractionTypes == {"click", "type", "mouseover", "wait", "scroll"}

\* the interactions an API payload can declare: the fields their type reads
Interactions ==
  {x \in [type : InteractionTypes, selector : {"", "#a", GoneSelector},
          value : {NullValue, "v"}, wait_ms : {NullMs, 0, 1}] :
     /\ x.type \in {"wait", "scroll"} => x.selector = ""
     /\ x.type # "type" => x.value = NullValue}

InteractionLists == UNION {[1..n -> Interactions] : n \in 0..MaxInteractions}

\* one awaited page call, made for the interaction of index of
PageCall(op, of, x) ==
  [op |-> op, of |-> of,
   arg |-> IF op = "waitForTimeout" THEN <<x.wait_ms>> ELSE <<x.selector>>]

\* the switch of executeInteractions for x, the interaction of index of
pageAction(x, of) ==
  CASE x.type = "click" ->
         IF x.selector # "" THEN <<PageCall("click", of, x)>> ELSE <<>>
    [] x.type = "type" ->
         IF x.selector # "" /\ x.value # NullValue
           THEN <<PageCall("fill", of, x)>> ELSE <<>>
    [] x.type = "mouseover" ->
         IF x.selector # "" THEN <<PageCall("hover", of, x)>> ELSE <<>>
    [] x.type = "wait" ->
         IF x.wait_ms # NullMs /\ x.wait_ms > 0
           THEN <<PageCall("waitForTimeout", of, x)>> ELSE <<>>
    [] OTHER -> <<PageCall("console.warn", of, x)>>

\* a settle delay applied after every interaction, wait included
postDelay_EveryType(x, of) ==
  IF x.wait_ms # NullMs /\ x.wait_ms > 0
    THEN <<PageCall("waitForTimeout", of, x)>> ELSE <<>>

\* the delay after the switch: if (interaction.type !== 'wait' &&
\* interaction.wait_ms !== null && interaction.wait_ms > 0)
postDelay(x, of) ==
  IF x.type # "wait" /\ x.wait_ms # NullMs /\ x.wait_ms > 0
    THEN <<PageCall("waitForTimeout", of, x)>> ELSE <<>>

\* an executeInteractions whose default branch throws
rejects_Unknown(calls) ==
  \E k \in DOMAIN calls :
    \/ calls[k].op \in {"click", "fill", "hover"} /\ calls[k].arg = <<GoneSelector>>
    \/ calls[k].op = "console.warn"

\* the awaited page calls reject: click, fill and hover on a selector that
\* matches nothing
rejects(calls) ==
  \E k \in DOMAIN calls :
    calls[k].op \in {"click", "fill", "hover"} /\ calls[k].arg = <<GoneSelector>>

\* for (const interaction of interactions) { switch ...; delay }, from the
\* interaction of index i on, trace being the calls awaited so far
RECURSIVE executeInteractionsFrom(_, _, _)
executeInteractionsFrom(interactions, i, trace) ==
  IF i > Len(interactions) THEN [trace |-> trace, threw |-> FALSE]
  ELSE LET x == interactions[i]
           action == pageAction(x, i)
       IN IF rejects(action) THEN [trace |-> trace \o action, threw |-> TRUE]
          ELSE executeInteractionsFrom(interactions, i + 1,
                                       trace \o action \o postDelay(x, i))

executeInteractions(interactions) == executeInteractionsFrom(interactions, 1, <<>>)

InitInteractions ==
  /\ fs = EmptyFs
  /\ config = TolerantConfig
  /\ revision = "odiff"
  /\ subject = [id |-> <<"a">>, key |-> <<"a">>]
  /\ call = NoCall
  /\ keyed = <<>>
  /\ options = [command |-> "none", updateBaseline |-> FALSE]
  /\ payload = [scenarios |-> <<>>, viewports |-> {}]
  /\ phase = "interactions"
  /\ tasks = <<>>
  /\ counters = NoCounters
  /\ results = <<>>
  /\ captureResults = <<>>
  /\ \E mode \in {"static", "interactive"}, interactions \in InteractionLists :
       pool = <<[pc |-> "stabilizeVideos",
                 scenario |-> [mode |-> mode, interactions |-> interactions],
                 trace |-> <<>>]>>
  /\ summary = NoSummary
  /\ claims = <<>>
  /\ retried = {}
  /\ service = launched(NoService)
  /\ outcome = NoOutcome
  /\ runs = <<>>

\* captureScreenshot: if (scenario.interactions.length > 0) await
\* this.executeInteractions(page, scenario.interactions), up to the await of
\* waitForFonts or out of the function when a page call rejected
InteractionGate ==
  /\ phase = "interactions" /\ pool[1].pc = "stabilizeVideos"
  /\ LET scenario == pool[1].scenario
         done == IF Len(scenario.interactions) > 0
                   THEN executeInteractions(scenario.interactions)
                 ELSE [trace |-> <<>>, threw |-> FALSE]
     IN pool' = [pool EXCEPT ![1].pc = IF done.threw THEN "thrown" ELSE "waitForFonts",
                             ![1].trace = done.trace]
  /\ UNCHANGED <<fs, call, service, serviceFrame>>

NextInteractions == InteractionGate

SpecInteractions == InitInteractions /\ [][NextInteractions]_vars

(***************************************************************************)
(* One captureScreenshot on an initialized service, await by await.        *)
(* pool[1] is the frame of the call: its arguments, the await it is        *)
(* suspended at, and the history of the awaits it began and ended.         *)
(***************************************************************************)
\* the awaits of captureScreenshot between newPage and the return, in the
\* order of the text of the function
PipelineSteps ==
  <<"goto", "wait_time_ms", "disableAnimations", "stabilizeVideos", "executeInteractions",
    "waitForFonts", "forceLazyBackgroundImages", "triggerLazyLoading", "waitForAllImages",
    "waitForStableHeight", "settle", "screenshot">>

\* a pipeline that disables the animations only after the interactions
nextStep_AnimationsLate(step, scenario, viewport) ==
  CASE step = "goto" ->
         IF scenario.wait_time_ms > 0 THEN "wait_time_ms" ELSE "stabilizeVideos"
    [] step = "wait_time_ms" -> "stabilizeVideos"
    [] step = "stabilizeVideos" ->
         IF Len(scenario.interactions) > 0 THEN "executeInteractions"
         ELSE "disableAnimations"
    [] step = "executeInteractions" -> "disableAnimations"
    [] step = "disableAnimations" -> "waitForFonts"
    [] step = "waitForFonts" ->
         IF viewport.full_page THEN "forceLazyBackgroundImages" ELSE "settle"
    [] step = "forceLazyBackgroundImages" -> "triggerLazyLoading"
    [] step = "triggerLazyLoading" -> "waitForAllImages"
    [] step = "waitForAllImages" -> "waitForStableHeight"
    [] step = "waitForStableHeight" -> "screenshot"
    [] step = "settle" -> "screenshot"
    [] step = "screenshot" -> "return"

\* captureScreenshot: the await that follows the await of step
nextStep(step, scenario, viewport) ==
  CASE step = "goto" ->
         IF scenario.wait_time_ms > 0 THEN "wait_time_ms" ELSE "disableAnimations"
    [] step = "wait_time_ms" -> "disableAnimations"
    [] step = "disableAnimations" -> "stabilizeVideos"
    [] step = "stabilizeVideos" ->
         IF Len(scenario.interactions) > 0 THEN "executeInteractions" ELSE "waitForFonts"
    [] step = "executeInteractions" -> "waitForFonts"
    [] step = "waitForFonts" ->
         IF viewport.full_page THEN "forceLazyBackgroundImages" ELSE "settle"
    [] step = "forceLazyBackgroundImages" -> "triggerLazyLoading"
    [] step = "triggerLazyLoading" -> "waitForAllImages"
    [] step = "waitForAllImages" -> "waitForStableHeight"
    [] step = "waitForStableHeight" -> "screenshot"
    [] step = "settle" -> "screenshot"
    [] step = "screenshot" -> "return"

\* how the page can end the await of step: the event the code waits for
pageEndings(step) ==
  CASE step = "goto" -> {"networkidle"}
    [] step = "stabilizeVideos" -> {"seeked"}
    [] step = "executeInteractions" -> {"done"}
    [] step = "waitForFonts" -> {"ready"}
    [] step = "waitForAllImages" -> {"loaded"}
    [] step = "waitForStableHeight" -> {"stable"}
    [] step = "screenshot" -> {"done"}
    [] OTHER -> {}

\* how a timer of the code or of Playwright ends the await of step:
\* navigationTimeout (goto), waitForTimeout, the setTimeout fallbacks, the
\* setInterval of the scroll, the poll loop, the default timeout of
\* click/fill/hover and screenshotTimeout. waitForFonts awaits
\* page.evaluate(`document.fonts.ready`) and nothing else
timerEndings(step) ==
  CASE step = "goto" -> {"timeout"}
    [] step = "wait_time_ms" -> {"elapsed"}
    [] step = "disableAnimations" -> {"done"}
    [] step = "stabilizeVideos" -> {"timeout"}
    [] step = "executeInteractions" -> {"timeout"}
    [] step = "waitForFonts" -> {}
    [] step = "forceLazyBackgroundImages" -> {"elapsed"}
    [] step = "triggerLazyLoading" -> {"bottom", "ceiling", "timeout"}
    [] step = "waitForAllImages" -> {"timeout"}
    [] step = "waitForStableHeight" -> {"timeout"}
    [] step = "settle" -> {"elapsed"}
    [] step = "screenshot" -> {"timeout"}

\* the error the await of step rejects with when it ends by how: page.goto,
\* page.click/fill/hover and page.screenshot reject with a TimeoutError; the
\* fallbacks written in the service resolve
thrown(step, how) ==
  IF how # "timeout" THEN NoText
  ELSE CASE step = "goto" -> CaptureFailed
         [] step = "executeInteractions" -> InteractionFailed
         [] step = "screenshot" -> ScreenshotFailed
         [] OTHER -> NoText

Began(step) == [step |-> step, event |-> "begin"]

NoFrame ==
  [pc |-> "idle", scenario |-> [wait_time_ms |-> 0, interactions |-> <<>>],
   viewport |-> [full_page |-> FALSE], trace |-> <<>>]

PipelineScenarios ==
  [wait_time_ms : {0, 1},
   interactions : {<<>>, <<[type |-> "click", selector |-> "#a", value |-> NullValue,
                            wait_ms |-> NullMs]>>}]

InitPipeline ==
  /\ fs = EmptyFs
  /\ config = TolerantConfig
  /\ revision = "odiff"
  /\ subject = [id |-> <<"a">>, key |-> <<"a">>]
  /\ call = NoCall
  /\ keyed = <<>>
  /\ options = [command |-> "none", updateBaseline |-> FALSE]
  /\ payload = [scenarios |-> <<>>, viewports |-> {}]
  /\ phase = "pipeline"
  /\ tasks = <<>>
  /\ counters = NoCounters
  /\ results = <<>>
  /\ captureResults = <<>>
  /\ pool = <<NoFrame>>
  /\ summary = NoSummary
  /\ claims = <<>>
  /\ retried = {}
  /\ service = launched(NoService)
  /\ outcome = NoOutcome
  /\ runs = <<>>

\* captureScreenshot(scenario, viewport, outputDir) up to page.goto: the
\* context and the page are created
CaptureScreenshot ==
  /\ phase = "pipeline" /\ pool[1].pc = "idle" /\ call.op = "none"
  /\ \E scenario \in PipelineScenarios, full_page \in BOOLEAN :
       pool' = [pool EXCEPT ![1] = [pc |-> "goto", scenario |-> scenario,
                                    viewport |-> [full_page |-> full_page],
                                    trace |-> <<Began("goto")>>]]
  /\ fs' = captureStart(service, fs).fs
  /\ service' = [service EXCEPT !.contexts = @ + 1]
  /\ UNCHANGED <<call, serviceFrame>>

\* the await of the step the call is suspended at ends by how: the call
\* runs to its next await, or out of the function through the finally
stepEnds(how) ==
  LET me == pool[1]
      ended == Append(me.trace, [step |-> me.pc, event |-> how])
      error == thrown(me.pc, how)
      next == nextStep(me.pc, me.scenario, me.viewport)
  IN /\ IF error # NoText
          THEN /\ pool' = [pool EXCEPT ![1].pc = "idle", ![1].trace = ended]
               /\ call' = Ended("captureScreenshot", error, 1, NoPath)
               /\ service' = contextClosed(service)
               /\ fs' = fs
        ELSE IF next = "return"
          THEN /\ pool' = [pool EXCEPT ![1].pc = "idle", ![1].trace = ended]
               /\ call' = Ended("captureScreenshot", NoText, 1, candidatePath)
               /\ service' = contextClosed(service)
               /\ fs' = writeFile(fs, candidatePath, BaselinePage)
        ELSE /\ pool' = [pool EXCEPT ![1].pc = next,
                                     ![1].trace = Append(ended, Began(next))]
             /\ UNCHANGED <<call, service, fs>>
     /\ UNCHANGED serviceFrame

\* the page does what the await waits for
PageResolves ==
  /\ phase = "pipeline" /\ pool[1].pc # "idle"
  /\ \E how \in pageEndings(pool[1].pc) : stepEnds(how)

\* a timer ends the await
TimerFires ==
  /\ phase = "pipeline" /\ pool[1].pc # "idle"
  /\ \E how \in timerEndings(pool[1].pc) : stepEnds(how)

NextPipeline ==
  \/ CaptureScreenshot
  \/ PageResolves
  \/ TimerFires

SpecPipeline == InitPipeline /\ [][NextPipeline]_vars

\* timers fire; what the page does is up to the page
SpecPipelineFair == SpecPipeline /\ WF_vars(TimerFires)

(***************************************************************************)
(* waitForStableHeight, await by await.  pool[1] is the frame of the call: *)
(* its locals, the await it is suspended at, the time since startTime and  *)
(* the heights the last polls returned.                                    *)
(***************************************************************************)
requiredStableChecks == 5
checkInterval == 300
stableTimeout == 8000

\* documentElement.scrollHeight is at least the height of the viewport,
\* which captureScreenshot makes positive
DocHeights == 1..MaxDocHeight

\* what a timer or a page call takes beyond its nominal time
Lateness == {0, checkInterval}

\* the variables no page-side step touches, for a frame in the given phase
InitFrame(ph) ==
  /\ fs = EmptyFs
  /\ config = TolerantConfig
  /\ revision = "odiff"
  /\ subject = [id |-> <<"a">>, key |-> <<"a">>]
  /\ call = NoCall
  /\ keyed = <<>>
  /\ options = [command |-> "none", updateBaseline |-> FALSE]
  /\ payload = [scenarios |-> <<>>, viewports |-> {}]
  /\ phase = ph
  /\ tasks = <<>>
  /\ counters = NoCounters
  /\ results = <<>>
  /\ captureResults = <<>>
  /\ summary = NoSummary
  /\ claims = <<>>
  /\ retried = {}
  /\ service = launched(NoService)
  /\ outcome = NoOutcome
  /\ runs = <<>>

\* the last requiredStableChecks + 1 readings
lastPolls(polls, h) ==
  LET all == Append(polls, h)
  IN IF Len(all) > requiredStableChecks + 1 THEN Tail(all) ELSE all

\* stableCount after a reading that keeps the count
stableCountAfter_NoReset(currentHeight, previousHeight, stableCount) ==
  IF currentHeight = previousHeight THEN stableCount + 1 ELSE stableCount

\* stableCount after a reading
stableCountAfter(currentHeight, previousHeight, stableCount) ==
  IF currentHeight = previousHeight THEN stableCount + 1 ELSE 0

\* the locals at the first test of the loop
InitStableHeight ==
  /\ InitFrame("stableHeight")
  /\ pool = <<[pc |-> "while", previousHeight |-> 0, stableCount |-> 0, elapsed |-> 0,
               polls |-> <<>>, polled |-> 0, exit |-> "none"]>>

\* while (Date.now() - startTime < timeout)
LoopTest ==
  /\ phase = "stableHeight" /\ pool[1].pc = "while"
  /\ pool' = IF pool[1].elapsed < stableTimeout
               THEN [pool EXCEPT ![1].pc = "evaluate"]
             ELSE [pool EXCEPT ![1].pc = "settle", ![1].exit = "timeout"]
  /\ UNCHANGED <<fs, call, service, serviceFrame>>

\* the evaluate resolves with the height of the document, and the body runs
\* to the break or to the waitForTimeout
HeightRead ==
  /\ phase = "stableHeight" /\ pool[1].pc = "evaluate"
  /\ \E currentHeight \in DocHeights, took \in Lateness :
       LET f == pool[1]
           count == stableCountAfter(currentHeight, f.previousHeight, f.stableCount)
           break == currentHeight = f.previousHeight /\ count >= requiredStableChecks
       IN pool' = <<[f EXCEPT !.stableCount = count,
                              !.previousHeight = IF break THEN @ ELSE currentHeight,
                              !.elapsed = @ + took,
                              !.polls = lastPolls(@, currentHeight),
                              !.polled = @ + 1,
                              !.pc = IF break THEN "settle" ELSE "waitForTimeout",
                              !.exit = IF break THEN "stable" ELSE @]>>
  /\ UNCHANGED <<fs, call, service, serviceFrame>>

\* page.waitForTimeout(checkInterval) resolves
IntervalElapsed ==
  /\ phase = "stableHeight" /\ pool[1].pc = "waitForTimeout"
  /\ \E late \in Lateness :
       pool' = [pool EXCEPT ![1].elapsed = @ + checkInterval + late, ![1].pc = "while"]
  /\ UNCHANGED <<fs, call, service, serviceFrame>>

\* the settle time after the loop resolves and waitForStableHeight returns
Settled ==
  /\ phase = "stableHeight" /\ pool[1].pc = "settle"
  /\ pool' = [pool EXCEPT ![1].pc = "returned"]
  /\ UNCHANGED <<fs, call, service, serviceFrame>>

NextStableHeight == LoopTest \/ HeightRead \/ IntervalElapsed \/ Settled

SpecStableHeight == InitStableHeight /\ [][NextStableHeight]_vars

(***************************************************************************)
(* triggerLazyLoading: the interval timer the page runs inside the         *)
(* evaluate.  pool[1] holds the locals of the promise, the height of the   *)
(* document, the scroll position and the time since startTime.             *)
(***************************************************************************)
maxScrollTime == 30000
maxScrollHeight == 50000
distance == 300
scrollDelay == 100
\* the viewport height of a full-page capture
viewportHeight == 800

\* document heights are followed up to the first two scroll steps past the
\* ceiling
MaxBodyHeight == maxScrollHeight + 2 * distance

\* a tick comes when its delay has passed, or after the page was stalled
\* for as long as the whole time limit
TickDelays == {scrollDelay, scrollDelay + maxScrollTime}

\* window.scrollBy(0, distance): the position is clamped to the document
scrollBy(scrollY, scrollHeight) ==
  Min(scrollY + distance, IF scrollHeight > viewportHeight THEN scrollHeight - viewportHeight ELSE 0)

\* an exit that leaves the page where the last scroll put it
exits_NoReset(f, why) == [f EXCEPT !.timer = "cleared", !.pc = "resolved", !.exit = why]

\* clearInterval(timer); window.scrollTo(0, 0); resolve()
exits(f, why) == [f EXCEPT !.timer = "cleared", !.scrollY = 0, !.pc = "resolved", !.exit = why]

\* the callback of the interval
onTick(f) ==
  IF f.elapsed > maxScrollTime THEN exits(f, "timeout")
  ELSE IF f.totalHeight >= maxScrollHeight THEN exits(f, "ceiling")
  ELSE LET scrolled == [f EXCEPT !.scrollY = scrollBy(@, f.scrollHeight),
                                 !.totalHeight = @ + distance,
                                 !.scrolls = @ + 1]
       IN IF scrolled.totalHeight >= f.scrollHeight THEN exits(scrolled, "bottom") ELSE scrolled

\* the promise is created: the interval is set on a document of some height
InitLazyLoading ==
  /\ InitFrame("lazyLoading")
  /\ \E screens \in 0..MaxScreens :
       pool = <<[pc |-> "interval", timer |-> "set", totalHeight |-> 0, elapsed |-> 0,
                 scrollHeight |-> screens * distance, scrollY |-> 0, scrolls |-> 0,
                 exit |-> "none"]>>

\* the interval fires
IntervalTick ==
  /\ phase = "lazyLoading" /\ pool[1].timer = "set"
  /\ \E delay \in TickDelays :
       pool' = <<onTick([pool[1] EXCEPT !.elapsed = @ + delay])>>
  /\ UNCHANGED <<fs, call, service, serviceFrame>>

\* content loaded by the scrolling makes the document longer
ContentLoads ==
  /\ phase = "lazyLoading" /\ pool[1].pc = "interval"
  /\ pool[1].scrollHeight + distance <= MaxBodyHeight
  /\ pool' = [pool EXCEPT ![1].scrollHeight = @ + distance]
  /\ UNCHANGED <<fs, call, service, serviceFrame>>

\* the evaluate resolves and triggerLazyLoading returns
EvaluateResolves ==
  /\ phase = "lazyLoading" /\ pool[1].pc = "resolved"
  /\ pool' = [pool EXCEPT ![1].pc = "returned"]
  /\ UNCHANGED <<fs, call, service, serviceFrame>>

NextLazyLoading == IntervalTick \/ ContentLoads \/ EvaluateResolves

\* the browser runs the timers of a page and settles its promises
SpecLazyLoading ==
  /\ InitLazyLoading /\ [][NextLazyLoading]_vars
  /\ WF_vars(IntervalTick) /\ WF_vars(EvaluateResolves)

(***************************************************************************)
(* The writes into the baseline directory at the grain of the file         *)
(* operations.  fs.copyFileSync (copyToBaseline) and the file write of     *)
(* page.screenshot({ path }) (captureScreenshot with outputDir =           *)
(* baselineDir) open the destination itself for writing, which truncates   *)
(* it, and then fill it; neither writes to a temporary file that is        *)
(* renamed.  The process has no signal handler and can be ended at any     *)
(* point.  pool holds the one task of the command: pc, the destination it  *)
(* opened and the bytes it is writing.                                     *)
(***************************************************************************)
\* a destination that is open for writing: the bytes written so far are
\* not a decodable PNG
Incomplete == Image(0, 1, 0)

\* a write that goes to a temporary file first: the destination keeps
\* what it held until the write is complete
opened_Aside(disk, target) == ensureDirectoryExists(disk, target.dir)

\* the destination after open(target, O_WRONLY | O_CREAT | O_TRUNC)
opened(disk, target) == writeFile(ensureDirectoryExists(disk, target.dir), target, Incomplete)

InitBaselineWrite ==
  /\ revision \in Revisions
  /\ config = TolerantConfig
  /\ subject = [id |-> <<"a">>, key |-> <<"a">>]
  /\ call = NoCall
  /\ keyed = <<>>
  /\ options \in Commands
  /\ payload = [scenarios |-> <<>>, viewports |-> {}]
  /\ phase = "baselineWrite"
  /\ \E generated \in BOOLEAN :
       /\ options.command = "generate-baseline" => ~generated
       /\ fs = IF generated
                 THEN [dirs |-> {baselineDir}, files |-> (subjectBaseline :> BaselinePage)]
               ELSE EmptyFs
  /\ tasks = <<>>
  /\ counters = NoCounters
  /\ results = <<>>
  /\ captureResults = <<>>
  /\ pool = <<[pc |-> "running", target |-> NoPath, content |-> NotAnImage]>>
  /\ summary = NoSummary
  /\ claims = <<>>
  /\ retried = {}
  /\ service = launched(NoService)
  /\ outcome = NoOutcome
  /\ runs = <<>>

\* run-tests, processTask: the screenshot of the test domain is written
\* into outputDir
CaptureInRun ==
  /\ phase = "baselineWrite" /\ options.command = "run-tests"
  /\ pool[1].pc = "running"
  /\ \E img \in Images :
       fs' = writeFile(ensureDirectoryExists(fs, outputDir), candidatePath, img)
  /\ pool' = [pool EXCEPT ![1].pc = "captured"]
  /\ UNCHANGED <<call, service, serviceFrame>>

\* run-tests, processTask after the capture: without a baseline the
\* screenshot becomes the baseline under --update-baseline; with one,
\* compareScreenshot runs and a pass under --update-baseline is copied
CompareInRun ==
  /\ phase = "baselineWrite" /\ options.command = "run-tests"
  /\ pool[1].pc = "captured"
  /\ IF ~baselineExists(fs, subject.id, subject.key)
       THEN /\ pool' = [pool EXCEPT ![1].pc = IF options.updateBaseline
                                                THEN "copying" ELSE "finished"]
            /\ UNCHANGED <<fs, call>>
     ELSE LET out == compareScreenshot(revision, fs, config, subject.id, subject.key,
                                       candidatePath)
          IN /\ fs' = out.fs
             /\ call' = Call("compareScreenshot", fs, out.result, out.calls, out.threw,
                             NoPath)
             /\ pool' = [pool EXCEPT ![1].pc = IF updatesBaseline(options, out.result)
                                                 THEN "copying" ELSE "finished"]
  /\ UNCHANGED <<service, serviceFrame>>

\* the write opens its destination: copyFileSync(screenshotPath,
\* baselinePath) in run-tests, the file write of page.screenshot in
\* generate-baseline
OpenDestination ==
  /\ phase = "baselineWrite"
  /\ \/ options.command = "run-tests" /\ pool[1].pc = "copying"
     \/ options.command = "generate-baseline" /\ pool[1].pc = "running"
  /\ LET target == IF options.command = "run-tests" THEN subjectBaseline
                   ELSE pathJoin(baselineDir, generateFilename(subject.id, subject.key))
         content == IF options.command = "run-tests" THEN fs.files[candidatePath]
                    ELSE BaselinePage
     IN /\ fs' = opened(fs, target)
        /\ pool' = [pool EXCEPT ![1].pc = "open", ![1].target = target,
                                ![1].content = content]
  /\ UNCHANGED <<call, service, serviceFrame>>

\* the last byte is written and the destination closed
WriteCompletes ==
  /\ phase = "baselineWrite" /\ pool[1].pc = "open"
  /\ fs' = writeFile(fs, pool[1].target, pool[1].content)
  /\ pool' = [pool EXCEPT ![1].pc = "finished"]
  /\ UNCHANGED <<call, service, serviceFrame>>

\* the write fails once the destination is open (ENOSPC, EIO):
\* copyFileSync removes the destination before it throws, the file write
\* of page.screenshot leaves what it wrote
WriteFails ==
  /\ phase = "baselineWrite" /\ pool[1].pc = "open"
  /\ fs' = IF options.command = "run-tests" THEN unlinkSync(fs, pool[1].target) ELSE fs
  /\ pool' = [pool EXCEPT ![1].pc = "finished"]
  /\ UNCHANGED <<call, service, serviceFrame>>

\* the process is ended from outside (SIGINT, SIGTERM, SIGKILL) while the
\* command runs: nothing of the command runs any more
Interrupted ==
  /\ phase = "baselineWrite"
  /\ pool[1].pc \in {"running", "captured", "copying", "open"}
  /\ pool' = [pool EXCEPT ![1].pc = "exited"]
  /\ UNCHANGED <<fs, call, service, serviceFrame>>

\* the command returns or calls process.exit
ProcessExits ==
  /\ phase = "baselineWrite" /\ pool[1].pc = "finished"
  /\ pool' = [pool EXCEPT ![1].pc = "exited"]
  /\ UNCHANGED <<fs, call, service, serviceFrame>>

\* a later run-tests on the disk the process left: its capture
LaterCapture ==
  /\ phase = "baselineWrite" /\ pool[1].pc = "exited"
  /\ CaptureCandidate

\* a later run-tests on the disk the process left: its comparison
LaterCompare ==
  /\ phase = "baselineWrite" /\ pool[1].pc = "exited"
  /\ existsSync(fs, candidatePath)
  /\ CompareScreenshot

NextBaselineWrite ==
  \/ CaptureInRun
  \/ CompareInRun
  \/ OpenDestination
  \/ WriteCompletes
  \/ WriteFails
  \/ Interrupted
  \/ ProcessExits
  \/ LaterCapture
  \/ LaterCompare

SpecBaselineWrite == InitBaselineWrite /\ [][NextBaselineWrite]_vars

(***************************************************************************)
(* Claims about the Comparison Engine.                                     *)
(***************************************************************************)
Compared == call.op = "compareScreenshot"

preBaseline == call.pre.files[subjectBaseline]

preCandidate == call.pre.files[candidatePath]

\* the call found two decodable images of equal dimensions (PixelCompared)
PixelCompared ==
  /\ Compared
  /\ existsSync(call.pre, subjectBaseline) /\ existsSync(call.pre, candidatePath)
  /\ IsImage(preBaseline) /\ IsImage(preCandidate)
  /\ SameDimensions(preBaseline, preCandidate)

\* the call found two decodable images of different dimensions
DimensionMismatch ==
  /\ Compared
  /\ existsSync(call.pre, subjectBaseline) /\ existsSync(call.pre, candidatePath)
  /\ IsImage(preBaseline) /\ IsImage(preCandidate)
  /\ ~SameDimensions(preBaseline, preCandidate)

trueDiffCount == DiffCount(preBaseline, preCandidate)

trueTotalCount == preBaseline.w * preBaseline.h

WithinPixelBudget == trueDiffCount <= config.maxDiffPixels

\* diffCount / totalCount <= maxDiffPixelRatio
WithinRatioBudget == trueDiffCount * RatioDen <= config.maxDiffPixelRatio * trueTotalCount

C4_DimensionMismatchSoftPass ==
  DimensionMismatch =>
    /\ call.result.passed
    /\ call.result.warning = "dimension-mismatch"
    /\ ~(~call.result.passed /\ call.result.diffPercentage = 100 * PctScale)

\* C5: with no baseline file, compareScreenshot fails with the 'Baseline
\* not found' error, never calls the pixel-diff primitive and leaves the
\* disk as it found it (no diff artifact, no diff directory).
C5_BaselineMissingShortCircuit ==
  (Compared /\ ~existsSync(call.pre, subjectBaseline)) =>
    /\ ~call.result.passed
    /\ call.result.error = BaselineNotFound
    /\ call.calls = 0
    /\ fs = call.pre

\* no baseline and no diff directory, a candidate is there to compare
C5_Witness ==
  /\ Compared
  /\ ~existsSync(call.pre, subjectBaseline)
  /\ existsSync(call.pre, candidatePath)
  /\ ~dirExists(call.pre, diffDir)
  /\ ~dirExists(fs, diffDir)
  /\ ~call.result.passed

\* C6: compareScreenshot never throws, and with a baseline but no
\* candidate file (or a failing diff primitive) the failing result carries
\* an error message other than the baseline-missing one.
C6_CandidateMissingReported ==
  Compared =>
    /\ ~call.threw
    /\ (/\ existsSync(call.pre, subjectBaseline)
        /\ \/ ~existsSync(call.pre, candidatePath)
           \/ ~IsImage(preCandidate)
           \/ ~IsImage(preBaseline))
       => /\ ~call.result.passed
          /\ call.result.error # NoText
          /\ call.result.error # BaselineNotFound

\* C7: compareScreenshot right after a copyToBaseline of the same,
\* unmodified candidate screenshot passes with no differing pixel, no
\* warning and no diff artifact.
C7_PromotionRoundTrip ==
  (/\ Compared
   /\ call.after = "copyToBaseline"
   /\ IsImage(preCandidate))
  => /\ call.result.passed
     /\ call.result.diffPixels = 0
     /\ call.result.warning = NoText
     /\ call.result.diffPath = NoPath
     /\ existsSync(fs, subjectDiff) => existsSync(call.pre, subjectDiff)

\* the round trip for an id that sanitising would change
C7_Witness ==
  /\ Compared
  /\ call.after = "copyToBaseline"
  /\ IsImage(preCandidate)
  /\ sanitize(subject.id) # subject.id
  /\ call.result.passed

\* C10: the file a baseline capture writes for a key is the file the
\* Comparison Engine resolves for that key, so the baseline is found.
C10_CaptureAndComparisonAgree ==
  (call.op = "captureScreenshot" /\ call.path.dir = baselineDir) =>
    /\ call.path = getBaselinePath(subject.id, subject.key)
    /\ baselineExists(fs, subject.id, subject.key)

(***************************************************************************)
(* Claims about the filename keying.                                       *)
(***************************************************************************)
\* C9: generateFilename gives one input pair the same name on every call
\* and gives two pairs that differ in the id or in the key different names.
C9_FilenameCollisionFree ==
  \A i, j \in DOMAIN keyed :
    /\ (keyed[i].id = keyed[j].id /\ keyed[i].key = keyed[j].key)
         => keyed[i].filename = keyed[j].filename
    /\ (keyed[i].id # keyed[j].id \/ keyed[i].key # keyed[j].key)
         => keyed[i].filename # keyed[j].filename

(***************************************************************************)
(* Claims about the worker pools and the retry wrapper.                    *)
(***************************************************************************)
Running(w) == pool[w].pc \in {"capturing", "delaying", "comparing"}

AllPairs == PairsOf(payload.scenarios, 1)

\* C1: in both worker pools, under every interleaving, no task index is
\* claimed twice, no two workers hold the same index, and when the workers
\* have joined every index 0..N-1 has been claimed exactly once.
C1_ExactlyOnce ==
  /\ \A i \in DOMAIN claims : claims[i] <= 1
  /\ \A v, w \in Workers :
       (Running(v) /\ Running(w) /\ pool[v].task = pool[w].task) => v = w
  /\ phase \in {"workers", "joined"} => DOMAIN claims = 0..(Len(tasks) - 1)
  /\ phase = "joined" =>
       /\ \A i \in 0..(Len(tasks) - 1) : claims[i] = 1
       /\ options.command = "generate-baseline" =>
            \A i \in 0..(Len(tasks) - 1) :
              Cardinality({k \in DOMAIN captureResults : captureResults[k].index = i}) = 1

\* more tasks than workers, two workers, all joined
C1_Witness ==
  /\ phase = "joined"
  /\ config.workers = 2
  /\ Len(tasks) > config.workers
  /\ \A i \in 0..(Len(tasks) - 1) : claims[i] = 1
  /\ counters.completed = Len(tasks)

resultsOf(t) ==
  {i \in DOMAIN results : /\ results[i].scenarioId = scenarioId(payload, t)
                          /\ results[i].viewport = t.viewportKey}

\* C2: when the workers of runTests have joined, results holds exactly one
\* TestResult per (scenario, viewport_key) pair, the one of an unresolved
\* viewport key failing with 'Viewport not found', and the summary counts
\* the pairs: total is their number and passed + failed = total.
C2_OneResultPerPair ==
  (phase = "joined" /\ options.command = "run-tests") =>
    /\ Len(results) = Len(AllPairs)
    /\ \A k \in DOMAIN AllPairs : Cardinality(resultsOf(AllPairs[k])) = 1
    /\ \A k \in DOMAIN AllPairs :
         AllPairs[k].viewportKey \notin payload.viewports =>
           \A i \in resultsOf(AllPairs[k]) :
             ~results[i].passed /\ results[i].error = ViewportNotFound
    /\ \A k \in DOMAIN AllPairs :
         AllPairs[k].viewportKey \in payload.viewports =>
           \A i \in resultsOf(AllPairs[k]) : results[i].error # ViewportNotFound
    /\ summary.total = Len(AllPairs)
    /\ summary.passed + summary.failed = summary.total

\* a joined run with an unresolved viewport key, a pass and a capture error
C2_Witness ==
  /\ phase = "joined" /\ options.command = "run-tests"
  /\ Mobile \notin payload.viewports
  /\ \E i, j, k \in DOMAIN results :
       /\ results[i].error = ViewportNotFound
       /\ results[j].passed
       /\ results[k].error = CaptureFailed
  /\ summary.total = Len(AllPairs)

\* C8: captureWithRetry calls captureScreenshot 1 + maxRetries times when
\* every attempt fails and then throws the error of the last attempt; it
\* returns at the first attempt that succeeds; it waits retryDelay between
\* two consecutive attempts and not after the last one.
C8_RetryExhaustion ==
  /\ \A r \in retried :
       /\ r.threw => /\ r.calls = 1 + config.maxRetries
                     /\ r.errorOf = config.maxRetries
                     /\ r.delays = config.maxRetries
       /\ ~r.threw => /\ r.calls <= 1 + config.maxRetries
                      /\ r.delays = r.calls - 1
  /\ \A w \in Workers :
       /\ pool[w].pc = "capturing" =>
            /\ pool[w].calls = pool[w].attempt + 1
            /\ pool[w].delays = pool[w].attempt
            /\ pool[w].attempt <= config.maxRetries
       /\ pool[w].pc = "delaying" =>
            /\ pool[w].delays = pool[w].calls
            /\ pool[w].attempt < config.maxRetries
       /\ pool[w].pc = "comparing" => pool[w].delays = pool[w].calls - 1

\* two retries allowed: one call threw after three attempts, another
\* returned at its second attempt
C8_Witness ==
  /\ config.maxRetries = 2
  /\ \E r \in retried : r.threw /\ r.calls = 3 /\ r.delays = 2
  /\ \E r \in retried : ~r.threw /\ r.calls = 2 /\ r.delays = 1

(***************************************************************************)
(* Claims about the commands: lifecycle, browser, exit.                    *)
(***************************************************************************)
baselineOf(t) == getBaselinePath(scenarioId(payload, t), t.viewportKey)

\* the results a finished run holds for the pair t
resultsIn(run, t) ==
  {run.results[i] : i \in {j \in DOMAIN run.results :
                              /\ run.results[j].scenarioId = scenarioId(payload, t)
                              /\ run.results[j].viewport = t.viewportKey}}

\* run-tests that exited having captured the pair t
Tested(run, t, r) ==
  /\ run.exitCode # -1
  /\ run.options.command = "run-tests"
  /\ r \in resultsIn(run, t)
  /\ r.error # CaptureFailed

\* the run found no baseline for t and, under --update-baseline, made one
Created(run, t, r) ==
  /\ Tested(run, t, r)
  /\ run.options.updateBaseline
  /\ ~existsSync(run.before, baselineOf(t))
  /\ r.passed

\* C11: a run-tests that finds no baseline for a task fails it with
\* 'Baseline not found' and creates none without --update-baseline; with
\* --update-baseline it creates the baseline from the captured screenshot
\* and passes; the run after that one, the page unchanged, passes with
\* diffPixels = 0.
C11_BaselineLifecycle ==
  \A k \in DOMAIN runs : \A t \in Resolvable(payload) :
    \A r \in resultsIn(runs[k], t) :
      Tested(runs[k], t, r) =>
        /\ (~existsSync(runs[k].before, baselineOf(t)) /\ ~runs[k].options.updateBaseline)
             => /\ ~r.passed
                /\ r.error = BaselineNotFoundInRun
                /\ ~existsSync(runs[k].after, baselineOf(t))
        /\ (~existsSync(runs[k].before, baselineOf(t)) /\ runs[k].options.updateBaseline)
             => /\ r.passed
                /\ existsSync(runs[k].after, baselineOf(t))
                /\ runs[k].after.files[baselineOf(t)] =
                     runs[k].after.files[screenshotPathOf(outputDir, t)]
        /\ (k > 1 /\ \E q \in resultsIn(runs[k - 1], t) : Created(runs[k - 1], t, q))
             => r.passed /\ r.diffPixels = 0

\* three runs of one task: no baseline, then --update-baseline, then a
\* plain run of the unchanged page
C11_Witness ==
  /\ Len(runs) = 3 /\ phase = "exited"
  /\ \E t \in Resolvable(payload) :
       /\ runs[1].options = [command |-> "run-tests", updateBaseline |-> FALSE]
       /\ \E r \in resultsIn(runs[1], t) :
            ~r.passed /\ r.error = BaselineNotFoundInRun
       /\ runs[1].exitCode = 1
       /\ \E r \in resultsIn(runs[2], t) : Created(runs[2], t, r)
       /\ runs[3].options = [command |-> "run-tests", updateBaseline |-> FALSE]
       /\ \E r \in resultsIn(runs[3], t) : r.passed /\ r.diffPixels = 0
       /\ runs[3].exitCode = 0

\* the pool call of the current command has returned
PoolReturned == phase \in {"joined", "exited"} /\ summary # NoSummary

\* the outcomes the pool has accumulated for its tasks
accumulated ==
  IF options.command = "run-tests"
    THEN Len(results) - Len(missingViewportResults(payload))
  ELSE Len(captureResults)

\* C12: the pool call returns only when every worker has returned: then
\* completed equals the number of tasks and the accumulator holds one
\* outcome per task; the browser is open while a worker is capturing,
\* waiting to retry or comparing.
C12_PoolJoin ==
  /\ PoolReturned =>
       /\ \A w \in Workers : ~Running(w)
       /\ counters.completed = Len(tasks)
       /\ accumulated = Len(tasks)
       /\ options.command = "generate-baseline" =>
            {captureResults[k].index : k \in DOMAIN captureResults}
              = 0..(Len(tasks) - 1)
  /\ \A w \in Workers :
       Running(w) => service.browser # 0 /\ service.browser \in service.running

\* two workers have joined after three tasks and the browser is closed
C12_Witness ==
  /\ phase = "joined"
  /\ config.workers = 2 /\ Len(tasks) = 3
  /\ counters.completed = 3 /\ accumulated = 3
  /\ service.browser = 0 /\ service.closes = 1 /\ service.running = {}

\* the outcomes accumulated for the task of index i (captureAll) or of
\* pair t (runTests)
outcomesOfIndex(i) == {k \in DOMAIN captureResults : captureResults[k].index = i}

\* the captures that threw out of captureWithRetry / captureScreenshot
thrownResults == {i \in DOMAIN results : results[i].error = CaptureFailed}

thrownCaptures == {k \in DOMAIN captureResults : captureResults[k].error = CaptureFailed}

\* C13: a capture that throws becomes one failed outcome of its task; a
\* worker leaves its loop only when every index has been claimed, and the
\* pool returns with one outcome for every task whatever failed.
C13_FailureIsolation ==
  /\ \A w \in Workers :
       pool[w].pc = "done" => \A i \in DOMAIN claims : claims[i] >= 1
  /\ (\E r \in retried : r.threw) <=> thrownResults # {}
  /\ \A i \in thrownResults :
       ~results[i].passed /\ results[i].screenshotPath = NoPath
  /\ \A k \in thrownCaptures : captureResults[k].path = NoPath
  /\ PoolReturned =>
       /\ options.command = "run-tests" =>
            \A t \in Range(tasks) : Cardinality(resultsOf(t)) = 1
       /\ options.command = "generate-baseline" =>
            \A i \in 0..(Len(tasks) - 1) : Cardinality(outcomesOfIndex(i)) = 1

\* the first of three tasks threw; the two after it were processed
C13_Witness ==
  /\ PoolReturned /\ options.command = "run-tests"
  /\ Len(tasks) = 3
  /\ Cardinality(thrownResults) = 1
  /\ \E i \in thrownResults :
       /\ results[i].scenarioId = scenarioId(payload, tasks[1])
       /\ results[i].viewport = tasks[1].viewportKey
  /\ \A t \in Range(tasks) : Cardinality(resultsOf(t)) = 1
  /\ summary.total = 3 /\ summary.failed >= 1

(***************************************************************************)
(* Claims about the ScreenshotService.                                     *)
(***************************************************************************)
\* C14: every browsing context captureScreenshot creates is closed when
\* the call returns or throws, so with no capture in flight no context is
\* open.
C14_ContextsNeverLeak ==
  (\A w \in Workers : ~InFlight(w)) => service.contexts = 0

CaptureOps == {"captureScreenshot", "captureWithRetry"}

\* C15: a captureScreenshot entered while the service holds no browser
\* throws 'Browser not initialized' and changes neither the disk (no
\* output directory, no file) nor the service (no context); the same
\* error is what captureWithRetry throws.
C15_BrowserNotInitialized ==
  [][(service.browser = 0 /\ call' # call /\ call'.op \in CaptureOps)
       => /\ call'.threw
          /\ call'.result.error = BrowserNotInitialized
          /\ call'.path = NoPath
          /\ fs' = fs
          /\ service' = service]_vars

\* captureWithRetry after close(): both attempts threw, nothing was made
C15_Witness ==
  /\ call.op = "captureWithRetry" /\ call.threw
  /\ call.result.error = BrowserNotInitialized
  /\ call.calls = 2
  /\ service.launches = 1 /\ service.closes = 1 /\ service.browser = 0
  /\ fs = EmptyFs /\ service.contexts = 0

\* C16: however initialize() calls overlap, no launched browser runs
\* unreferenced: the browsers running are at most the one the service
\* references.
C16_InitializeIdempotent ==
  \A b \in service.running : b = service.browser

\* C17: guaranteed browser release: once initialize() has launched the
\* browser, a command that has ended (summary printed or aborted by a throw of
\* the diff clean-up) has closed it exactly once and no browser is left
\* running.
C17_GuaranteedRelease ==
  (phase = "exited" /\ service.launches > 0)
    => /\ service.closes = 1
       /\ service.browser = 0
       /\ service.running = {}

\* the results of the run that did not pass
failedResults == {i \in DOMAIN results : ~results[i].passed}

\* every task of the run-tests has been processed and every result reported:
\* the summary counts them, the failed-tests file is saved (or cleared when
\* nothing failed) and the report holds them
ReportedAll ==
  /\ counters.completed = Len(tasks)
  /\ Len(results) = Len(tasks) + Len(missingViewportResults(payload))
  /\ summary.total = Len(results) /\ summary.failed = Cardinality(failedResults)
  /\ outcome.reported = Len(results)
  /\ outcome.failedTests = failedTestsOf(results)
  /\ outcome.failedFile = IF failedResults # {} THEN "saved" ELSE "cleared"

C19_DiffArtifactPolicy ==
  Compared =>
    /\ (~call.result.passed /\ call.result.diffPixels > 0)
          => /\ existsSync(fs, subjectDiff)
             /\ call.result.diffPath = subjectDiff
    /\ call.result.passed
          => /\ ~existsSync(fs, subjectDiff)
             /\ call.result.diffPath = NoPath

\* the pairs of the payload whose viewport key is not among the viewports
Unresolved == Range(PairsOf(payload.scenarios, 1)) \ Resolvable(payload)

\* the indices of the tasks whose capture succeeded
capturedTasks ==
  {i \in 0..(Len(tasks) - 1) :
     \E k \in outcomesOfIndex(i) : captureResults[k].error = NoText}

\* C20: captureAll skips every pair whose viewport key is unresolved and
\* still captures every resolvable pair; the map it returns has exactly one
\* entry '<scenario.id>__<viewport key>' -> file path for each task whose
\* capture succeeded and none for a task whose capture failed; with no
\* resolvable task the map is empty and no worker was started.
C20_CaptureAllUnresolved ==
  (options.command = "generate-baseline" /\ PoolReturned) =>
    LET map == captureAllResults(captureResults)
    IN /\ Range(tasks) = Resolvable(payload)
       /\ \A i \in 0..(Len(tasks) - 1) : Cardinality(outcomesOfIndex(i)) = 1
       /\ Len(captureResults) = Len(tasks)
       /\ DOMAIN map = {captureKey(tasks[i + 1]) : i \in capturedTasks}
       /\ Cardinality(DOMAIN map) = Cardinality(capturedTasks)
       /\ \A i \in capturedTasks :
            /\ map[captureKey(tasks[i + 1])] = screenshotPathOf(baselineDir, tasks[i + 1])
            /\ existsSync(fs, map[captureKey(tasks[i + 1])])
       /\ \A t \in Unresolved : captureKey(t) \notin DOMAIN map
       /\ summary.passed = Cardinality(DOMAIN map)
       /\ summary.failed = Len(PairsOf(payload.scenarios, 1)) - Cardinality(DOMAIN map)
       /\ tasks = <<>> => /\ map = <<>>
                          /\ \A w \in Workers : pool[w] = Idle
                          /\ counters = NoCounters

\* a captureAll that returned with an unresolved pair skipped, one task
\* captured and one task failed
C20_Witness ==
  /\ options.command = "generate-baseline" /\ PoolReturned
  /\ Unresolved # {}
  /\ capturedTasks # {}
  /\ \E i \in 0..(Len(tasks) - 1) : i \notin capturedTasks

\* a captureAll that returned with pairs in the payload and none resolvable
NoResolvableTask ==
  /\ options.command = "generate-baseline" /\ PoolReturned
  /\ Unresolved # {} /\ tasks = <<>>

(***************************************************************************)
(* Claims about the capture pipeline.                                      *)
(***************************************************************************)
\* the place of a step in the stabilisation pipeline
rankOf(step) == CHOOSE i \in DOMAIN PipelineSteps : PipelineSteps[i] = step

\* the steps a capture of scenario under viewport has to go through
requiredSteps(scenario, viewport) ==
  {"goto", "disableAnimations", "stabilizeVideos", "waitForFonts", "screenshot"}
    \cup (IF scenario.wait_time_ms > 0 THEN {"wait_time_ms"} ELSE {})
    \cup (IF Len(scenario.interactions) > 0 THEN {"executeInteractions"} ELSE {})
    \cup (IF viewport.full_page
            THEN {"forceLazyBackgroundImages", "triggerLazyLoading", "waitForAllImages",
                  "waitForStableHeight"}
          ELSE {"settle"})

\* the captureScreenshot call has returned its path
Returned == call.op = "captureScreenshot" /\ ~call.threw

\* the captureScreenshot call has thrown
Thrown == call.op = "captureScreenshot" /\ call.threw

\* C21: the steps of captureScreenshot run strictly one after another, each
\* ending before the next begins, in the order navigate, wait_time_ms,
\* disable animations, freeze videos, interactions, fonts, then for a
\* full_page viewport force lazy content, scroll, images, stable height and
\* for any other viewport the fixed settle delay only, then the screenshot.
C21_PipelineOrder ==
  phase = "pipeline" =>
    LET trace == pool[1].trace
        begun == {i \in DOMAIN trace : trace[i].event = "begin"}
    IN /\ \A i \in DOMAIN trace : (i \in begun) <=> (i % 2 = 1)
       /\ \A i \in DOMAIN trace \ begun : trace[i].step = trace[i - 1].step
       /\ \A i, j \in begun : i < j => rankOf(trace[i].step) < rankOf(trace[j].step)
       /\ pool[1].pc # "idle" => /\ Len(trace) % 2 = 1
                                 /\ trace[Len(trace)].step = pool[1].pc
       /\ Returned => /\ {trace[i].step : i \in begun}
                         = requiredSteps(pool[1].scenario, pool[1].viewport)
                      /\ Len(trace) % 2 = 0

\* a full-page capture of a scenario with a wait time and interactions has
\* returned after its eleven steps
C21_Witness ==
  /\ Returned
  /\ pool[1].scenario.wait_time_ms > 0 /\ Len(pool[1].scenario.interactions) > 0
  /\ pool[1].viewport.full_page
  /\ Len(pool[1].trace) = 22

\* the waits of the pipeline that have a time limit to degrade at
TimeBoxedWaits ==
  {"goto", "stabilizeVideos", "waitForFonts", "triggerLazyLoading", "waitForAllImages",
   "waitForStableHeight"}

\* the awaits of the capture that ended at their time limit, by step
timedOut(steps) ==
  {i \in DOMAIN pool[1].trace :
     pool[1].trace[i].event = "timeout" /\ pool[1].trace[i].step \in steps}

\* C22: a wait of the pipeline (navigation, video seek, fonts, lazy-load
\* scroll, images, height) that reaches its time limit does not fail the
\* capture: the call goes on through the remaining steps and, unless an
\* interaction or the screenshot itself fails, returns with its file written.
C22_TimeoutsDegrade ==
  (/\ phase = "pipeline"
   /\ timedOut(TimeBoxedWaits) # {}
   /\ timedOut({"executeInteractions", "screenshot"}) = {})
    => /\ ~Thrown
       /\ pool[1].pc = "idle" => /\ Returned
                                 /\ call.path = candidatePath
                                 /\ existsSync(fs, candidatePath)

\* C23: no unbounded wait on the capture path: a captureScreenshot that
\* has begun eventually returns or throws, whatever the page does, the
\* timers of the code and of Playwright being the only steps sure to happen.
C23_NoUnboundedWait ==
  (phase = "pipeline" /\ pool[1].pc # "idle") ~> (pool[1].pc = "idle")

\* every task index has been claimed and every task has its outcome
AllCompleted ==
  /\ counters.taskIndex >= Len(tasks)
  /\ counters.completed = Len(tasks)

\* C24: a slow task never blocks task claiming: a worker that ends a round
\* claims the next index and starts on it whatever await the other workers
\* are suspended at, and as long as some worker goes on every task is
\* eventually claimed and completed.
C24_SlowTaskNeverBlocks ==
  /\ [][\A w \in Workers :
          (/\ phase = "workers"
           /\ counters'.completed = counters.completed + 1
           /\ pool'[w] # pool[w])
            => /\ counters'.taskIndex = counters.taskIndex + 1
               /\ IF counters.taskIndex < Len(tasks)
                    THEN /\ pool'[w].pc = "capturing"
                         /\ pool'[w].task = counters.taskIndex
                  ELSE pool'[w].pc = "done"
               /\ \A v \in Workers \ {w} : pool'[v] = pool[v]]_vars
  /\ (phase = "workers") ~> AllCompleted

\* worker 1 is still at the first await of the first task while the other
\* worker has completed two tasks
C24_Witness ==
  /\ phase = "workers"
  /\ pool[1].pc = "capturing" /\ pool[1].task = 0 /\ pool[1].calls = 1
  /\ counters.completed >= 2
  /\ pool[2].pc = "done"

\* the outcome of the pair t, wherever it stands in results
outcomeOf(t) == results[CHOOSE i \in resultsOf(t) : TRUE]

\* the pairs of the payload whose outcome is a failure
failedPairs == {t \in Range(AllPairs) : ~outcomeOf(t).passed}

\* C25: order-independent aggregation: the summary counts and the saved set
\* of failed (scenarioId, viewport) pairs of a run-tests are functions of the
\* outcome of each pair alone, whatever the order in which the workers pushed
\* their results; every pair contributes exactly once.
C25_OrderIndependentAggregation ==
  (options.command = "run-tests" /\ phase = "exited" /\ summary # NoSummary) =>
    /\ Len(results) = Cardinality(Range(AllPairs))
    /\ \A t \in Range(AllPairs) : Cardinality(resultsOf(t)) = 1
    /\ summary.total = Cardinality(Range(AllPairs))
    /\ summary.failed = Cardinality(failedPairs)
    /\ summary.passed = Cardinality(Range(AllPairs) \ failedPairs)
    /\ counters.passed = Cardinality(Range(tasks) \ failedPairs)
    /\ counters.failed = Cardinality(Range(tasks) \cap failedPairs)
    /\ outcome.failedTests =
         {[scenarioId |-> scenarioId(payload, t), viewport |-> t.viewportKey] :
            t \in failedPairs}

\* a run-tests has exited with the results of two tasks pushed in the
\* reverse of their queue order, the earlier result passing and the later
\* one failing
C25_Witness ==
  /\ options.command = "run-tests" /\ phase = "exited" /\ summary # NoSummary
  /\ \E a, b \in DOMAIN tasks :
       /\ a < b
       /\ \E i \in resultsOf(tasks[a]), j \in resultsOf(tasks[b]) :
            j < i /\ results[j].passed /\ ~results[i].passed

(***************************************************************************)
(* Claims about the interactions.                                          *)
(***************************************************************************)
\* the interaction gate of the capture has been passed, by a return of
\* executeInteractions or by its throw
Replayed == phase = "interactions" /\ pool[1].pc # "stabilizeVideos"

\* the places in the trace of the calls made for the interaction of index i
callsOf(i, ops) ==
  {k \in DOMAIN pool[1].trace : pool[1].trace[k].of = i /\ pool[1].trace[k].op \in ops}

\* what the interaction x asks of the page, by its type
actionOf(x) ==
  CASE x.type = "click" /\ x.selector # "" -> {"click"}
    [] x.type = "type" /\ x.selector # "" /\ x.value # NullValue -> {"fill"}
    [] x.type = "mouseover" /\ x.selector # "" -> {"hover"}
    [] OTHER -> {}

KnownTypes == {"click", "type", "mouseover", "wait"}

\* C27: an interaction of unknown kind performs no page action and raises
\* no error: executeInteractions never throws at it, and when no known
\* interaction fails every later interaction is executed and the capture
\* goes on to its next step.
C27_UnknownKindsSkipped ==
  Replayed =>
    LET xs == pool[1].scenario.interactions
        trace == pool[1].trace
        unknown == {i \in DOMAIN xs : xs[i].type \notin KnownTypes}
    IN /\ \A i \in unknown : callsOf(i, {"click", "fill", "hover"}) = {}
       /\ pool[1].pc = "thrown" => trace[Len(trace)].of \notin unknown
       /\ (\A i \in DOMAIN xs \ unknown : xs[i].selector # GoneSelector)
            => /\ pool[1].pc = "waitForFonts"
               /\ \A i \in unknown, j \in DOMAIN xs :
                    (j > i /\ actionOf(xs[j]) # {})
                      => callsOf(j, actionOf(xs[j])) # {}

\* a scroll interaction followed by a click that was performed
C27_Witness ==
  /\ Replayed /\ pool[1].pc = "waitForFonts"
  /\ Len(pool[1].scenario.interactions) = 2
  /\ pool[1].scenario.interactions[1].type = "scroll"
  /\ pool[1].scenario.interactions[2].type = "click"
  /\ callsOf(2, {"click"}) # {}

(***************************************************************************)
(* Claims about the size of the pool.                                      *)
(***************************************************************************)
\* the workers the pool has created
startedWorkers == {w \in Workers : pool[w] # Idle}

\* the workers inside a capture: the captures in flight, each owning the
\* browsing context of its attempt
capturing == {w \in Workers : pool[w].pc = "capturing"}

\* the browsing contexts open: those of the captures in flight and those
\* left open by a capture that has ended
openContexts == Cardinality(capturing) + service.contexts

\* the pool starts min(workers, tasks) workers and at most that many tasks
\* are in flight at the same time, each worker on a task of its own
BoundedConcurrency ==
  phase \in {"workers", "joined", "exited"} =>
    /\ Cardinality(startedWorkers) = Min(config.workers, Len(tasks))
    /\ Cardinality({w \in Workers : Running(w)}) <= Min(config.workers, Len(tasks))
    /\ \A w, v \in Workers : (Running(w) /\ Running(v) /\ w # v) => pool[w].task # pool[v].task

\* C28: bounded concurrency: the pool starts exactly min(configured
\* workers, number of tasks) workers and in every reachable state the number
\* of tasks being captured at the same time, and of open browsing contexts,
\* is at most that number.
C28_BoundedConcurrency ==
  /\ BoundedConcurrency
  /\ phase \in {"workers", "joined", "exited"}
       => openContexts <= Min(config.workers, Len(tasks))

(***************************************************************************)
(* Claims about waitForStableHeight.                                       *)
(***************************************************************************)
\* the number of readings at the end of polls that equal the reading before
RECURSIVE equalRun(_)
equalRun(polls) ==
  IF Len(polls) < 2 \/ polls[Len(polls)] # polls[Len(polls) - 1] THEN 0
  ELSE 1 + equalRun(SubSeq(polls, 1, Len(polls) - 1))

\* C29: height stabilization: the height is declared stable only after
\* requiredStableChecks (5) consecutive polls each returned the height of the
\* poll before it; a poll that differs from its predecessor resets the count
\* to zero; if the count is never reached the loop ends once the timeout
\* (8000 ms) has elapsed, and waitForStableHeight returns either way.
C29_HeightStabilization ==
  /\ [](phase = "stableHeight" =>
        LET f == pool[1]
        IN /\ f.stableCount = equalRun(f.polls)
           /\ f.exit = "stable" <=> f.stableCount >= requiredStableChecks
           /\ f.exit = "stable" =>
                /\ Len(f.polls) = requiredStableChecks + 1
                /\ \A i \in 2..Len(f.polls) : f.polls[i] = f.polls[i - 1]
           /\ f.exit = "timeout" => f.elapsed >= stableTimeout
           /\ f.pc = "evaluate" => f.elapsed < stableTimeout
           /\ f.polled * checkInterval <= stableTimeout + 2 * checkInterval
           /\ f.pc \in {"settle", "returned"} <=> f.exit # "none")
  /\ [][phase = "stableHeight" =>
          /\ (pool[1].pc = "while" /\ pool[1].elapsed >= stableTimeout)
               => pool'[1].pc = "settle"
          /\ pool[1].pc = "waitForTimeout"
               => pool'[1].elapsed >= pool[1].elapsed + checkInterval
          /\ pool[1].pc = "settle" => pool'[1].pc = "returned"]_vars

\* the height became stable after a reading that reset the count
C29_Witness ==
  /\ phase = "stableHeight" /\ pool[1].pc = "returned" /\ pool[1].exit = "stable"
  /\ pool[1].polled > requiredStableChecks + 2

\* the loop was left by the timeout after a reset, and the call returned
TimedOutUnstable ==
  /\ phase = "stableHeight" /\ pool[1].pc = "returned" /\ pool[1].exit = "timeout"
  /\ pool[1].stableCount = 0 /\ pool[1].polled > 1

(***************************************************************************)
(* Claims about triggerLazyLoading.                                        *)
(***************************************************************************)
\* C30: bounded lazy-load scroll: the page is scrolled in increments of 300
\* px and the step always terminates: when the scrolled distance reaches the
\* document height, when it reaches the 50,000 px ceiling or when 30 s have
\* elapsed, even if the document grows on every scroll; on each of these
\* exits the scroll position is back at the top before the step completes.
C30_BoundedLazyLoadScroll ==
  /\ [](phase = "lazyLoading" =>
        LET f == pool[1]
        IN /\ f.totalHeight = f.scrolls * distance
           /\ f.totalHeight < maxScrollHeight + distance
           /\ (f.pc = "interval" /\ f.scrolls > 0) => f.totalHeight < f.scrollHeight
           /\ f.pc \in {"resolved", "returned"} <=> f.exit # "none"
           /\ f.exit # "none" => f.scrollY = 0 /\ f.timer = "cleared"
           /\ f.exit = "bottom" => f.totalHeight >= f.scrollHeight
           /\ f.exit = "ceiling" => f.totalHeight >= maxScrollHeight
           /\ f.exit = "timeout" => f.elapsed > maxScrollTime)
  /\ [][(phase = "lazyLoading" /\ pool[1].timer = "set" /\ pool'[1].timer = "set")
          => /\ pool'[1].scrollHeight >= pool[1].scrollHeight
             /\ pool'[1].totalHeight \in {pool[1].totalHeight, pool[1].totalHeight + distance}]_vars
  /\ (phase = "lazyLoading") ~> (pool[1].pc = "returned")

\* the document grew ahead of the scrolling up to the ceiling, and the step
\* returned with the page at the top
C30_Witness ==
  /\ phase = "lazyLoading" /\ pool[1].pc = "returned" /\ pool[1].exit = "ceiling"
  /\ pool[1].scrollHeight > pool[1].totalHeight

\* the step returned at the bottom of a document that had grown
ReachedBottom ==
  /\ phase = "lazyLoading" /\ pool[1].pc = "returned" /\ pool[1].exit = "bottom"
  /\ pool[1].scrolls > MaxScreens

\* the step returned by its time limit
ScrollTimedOut ==
  /\ phase = "lazyLoading" /\ pool[1].pc = "returned" /\ pool[1].exit = "timeout"
  /\ pool[1].scrolls > 0

(***************************************************************************)
(* Claims about what run-tests leaves on disk.                             *)
(***************************************************************************)
\* the baseline files a step created, removed or gave another content
baselinesChanged ==
  {p \in DOMAIN fs.files \cup DOMAIN fs'.files :
     /\ p.dir = baselineDir
     /\ \/ p \notin DOMAIN fs.files
        \/ p \notin DOMAIN fs'.files
        \/ fs.files[p] # fs'.files[p]}

\* C31: baselines change only on a pass: during runTests a baseline file is
\* created or overwritten only when updateBaseline is set and the baseline
\* was missing or the comparison for that key passed; a failed or errored
\* comparison, or a run without updateBaseline, leaves the baseline of the
\* key unchanged.
C31_BaselinesChangeOnlyOnPass ==
  [][options.command = "run-tests" =>
       \A p \in baselinesChanged :
         /\ options.updateBaseline
         /\ Len(results') = Len(results) + 1
         /\ LET r == results'[Len(results')]
            IN /\ r.passed /\ r.error = NoText
               /\ p = getBaselinePath(r.scenarioId, r.viewport)
               /\ p \in DOMAIN fs'.files
               /\ fs'.files[p] = fs'.files[r.screenshotPath]]_vars

\* a run with updateBaseline has joined: the baseline of a key whose
\* comparison failed still holds the page it held before, and the baseline
\* of a key that passed holds the page captured
C31_Witness ==
  /\ phase = "joined" /\ options.command = "run-tests" /\ options.updateBaseline
  /\ \E i, j \in DOMAIN results :
       /\ ~results[i].passed /\ results[i].error = NoText
       /\ fs.files[getBaselinePath(results[i].scenarioId, results[i].viewport)] = BaselinePage
       /\ fs.files[results[i].screenshotPath] = ChangedPage
       /\ results[j].passed
       /\ fs.files[getBaselinePath(results[j].scenarioId, results[j].viewport)]
            = fs.files[results[j].screenshotPath]

(***************************************************************************)
(* Claims about the failed-tests file and the --failed flag.               *)
(***************************************************************************)
\* the worker phase of a runTests has completed and the command has exited
RunTestsCompleted ==
  phase = "exited" /\ options.command = "run-tests" /\ summary # NoSummary

\* C32: the failed-test file reflects the last run: after runTests has
\* completed its worker phase the file holds exactly the (scenarioId,
\* viewport) pairs of the results of that run with passed = false, and when
\* no result failed the file does not exist.
C32_FailedFileReflectsLastRun ==
  RunTestsCompleted =>
    LET failing == {i \in DOMAIN results : ~results[i].passed}
    IN IF failing = {} THEN fs.failedFile.state = "missing"
       ELSE /\ fs.failedFile.state = "saved"
            /\ \A i \in failing :
                 [scenarioId |-> results[i].scenarioId, viewport |-> results[i].viewport]
                   \in fs.failedFile.tests
            /\ \A t \in fs.failedFile.tests :
                 \E i \in failing :
                   results[i].scenarioId = t.scenarioId /\ results[i].viewport = t.viewport

\* a run with --failed has replaced a file that recorded a pair which did
\* not fail in this run
C32_Witness ==
  /\ RunTestsCompleted /\ options.failed
  /\ fs.failedFile.state = "saved"
  /\ runs[1].before.failedFile.tests \ fs.failedFile.tests # {}

\* the recorded failures that the API still serves with their viewport
stillServed(recorded) ==
  {r \in recorded :
     /\ r.viewport \in payload.viewports
     /\ \E i \in DOMAIN ServedScenarios :
          /\ ServedScenarios[i].id = r.scenarioId
          /\ r.viewport \in Range(ServedScenarios[i].viewport_keys)}

\* C33: the re-run of failed tests covers every recorded failure: runTests
\* with --failed and no viewport filter executes a task for every recorded
\* (scenarioId, viewport) pair that is still in the API payload; when the
\* recorded list is empty or the file is missing or unreadable it returns
\* without fetching scenarios, launching a browser or changing any file.
C33_RerunCoversRecordedFailures ==
  /\ []((options.command = "run-tests" /\ options.failed) =>
          /\ phase \in {"workers", "joined"} =>
               \A r \in stillServed(loadFailedTests(fs)) :
                 \E k \in DOMAIN tasks :
                   /\ scenarioId(payload, tasks[k]) = r.scenarioId
                   /\ tasks[k].viewportKey = r.viewport
                   /\ phase = "joined" => claims[k - 1] = 1
          /\ phase = "joined" =>
               \A r \in stillServed(loadFailedTests(fs)) :
                 \E i \in DOMAIN results :
                   results[i].scenarioId = r.scenarioId /\ results[i].viewport = r.viewport
          /\ (phase = "exited" /\ summary = NoSummary /\ call.op = "none") =>
               /\ service = NoService
               /\ fs = runs[1].before /\ loadFailedTests(fs) = {})
  /\ [][(options.command = "run-tests" /\ options.failed /\ phase = "invoked"
           /\ loadFailedTests(fs) = {})
          => (phase' = "exited" /\ fs' = fs /\ service' = service /\ call' = call
                /\ payload' = payload)]_vars

\* the re-run of a recorded failure has joined, and it also ran a pair
\* that was not recorded
C33_Witness ==
  /\ options.command = "run-tests" /\ options.failed /\ phase = "joined"
  /\ stillServed(loadFailedTests(fs)) # {}
  /\ \E i \in DOMAIN results :
       [scenarioId |-> results[i].scenarioId, viewport |-> results[i].viewport]
         \notin loadFailedTests(fs)

\* runTests --failed has returned on a failed-tests file it could not parse
ReturnedOnUnreadable ==
  /\ options.command = "run-tests" /\ options.failed /\ phase = "exited"
  /\ fs.failedFile.state = "unreadable" /\ call.op = "none" /\ service = NoService

\* the baseline files this run has captured again
recaptured ==
  {captureResults[i].path : i \in {j \in DOMAIN captureResults : captureResults[j].error = NoText}}

\* every screenshot of the run was captured
EveryScreenshotCaptured ==
  \A t \in Range(PairsOf(payload.scenarios, 1)) :
    \E i \in DOMAIN captureResults :
      /\ captureResults[i].key = captureKey(t)
      /\ captureResults[i].error = NoText

\* C34: generate-baseline --failed preserves the other baselines: the
\* baseline directory is not cleaned, so the baseline file of every
\* scenario/viewport that is not captured again in this run is unchanged;
\* the failed-test file is cleared only when every screenshot of the run
\* was captured, and otherwise it is left unchanged and the process exits
\* non-zero.
C34_FailedModePreservesBaselines ==
  (options.command = "generate-baseline" /\ options.failed /\ Len(runs) > 0) =>
    LET before == runs[1].before
    IN /\ \A p \in DOMAIN before.files :
            (p.dir = baselineDir /\ p \notin recaptured) =>
              (p \in DOMAIN fs.files /\ fs.files[p] = before.files[p])
       /\ fs.failedFile # before.failedFile =>
            /\ phase = "exited" /\ fs.failedFile = NoFailedFile
            /\ EveryScreenshotCaptured /\ outcome.exitCode = 0
       /\ (phase = "exited" /\ summary # NoSummary /\ ~EveryScreenshotCaptured) =>
            (fs.failedFile = before.failedFile /\ outcome.exitCode = 1)

\* the baselines of the failed scenario were captured again and the file
\* cleared, with the baseline of a scenario outside the run still on disk
C34_Witness ==
  /\ options.command = "generate-baseline" /\ options.failed /\ phase = "exited"
  /\ EveryScreenshotCaptured
  /\ runs[1].before.failedFile.state = "saved" /\ fs.failedFile = NoFailedFile
  /\ \E p \in DOMAIN fs.files : p.dir = baselineDir /\ p \notin recaptured

\* a capture of the run failed: the file is kept and the exit status is 1
KeptForRepeat ==
  /\ options.command = "generate-baseline" /\ options.failed /\ phase = "exited"
  /\ ~EveryScreenshotCaptured /\ fs.failedFile.state = "saved" /\ outcome.exitCode = 1

(***************************************************************************)
(* Claims about the diff directory.                                        *)
(***************************************************************************)
\* the files of the diff directory
diffArtifacts == {p \in DOMAIN fs.files : p.dir = diffDir}

\* every file of the diff directory is the diff of a result of this run
WrittenByThisRun ==
  \A p \in diffArtifacts : \E i \in DOMAIN results : results[i].diffPath = p

taskResults == SubSeq(results, Len(missingViewportResults(payload)) + 1, Len(results))

\* C36: the progress counters stay consistent: in every state of the
\* runTests worker phase completed = passed + failed = the number of task
\* results pushed so far <= the number of tasks, and taskIndex >= completed;
\* when the pool has joined, completed is the number of tasks and passed /
\* failed are the numbers of passing / failing task results.
C36_ProgressCounters ==
  (options.command = "run-tests" /\ phase \in {"workers", "joined"}) =>
    /\ counters.completed = counters.passed + counters.failed
    /\ counters.completed = Len(taskResults)
    /\ counters.completed <= Len(tasks)
    /\ counters.taskIndex >= counters.completed
    /\ phase = "joined" =>
         /\ counters.completed = Len(tasks)
         /\ counters.passed = Cardinality({i \in DOMAIN taskResults : taskResults[i].passed})
         /\ counters.failed = Cardinality({i \in DOMAIN taskResults : ~taskResults[i].passed})

\* two workers are in the worker phase, one task has passed and one has
\* failed, and a result of an unresolved viewport key precedes them
C36_Witness ==
  /\ options.command = "run-tests" /\ phase = "workers"
  /\ counters.passed = 1 /\ counters.failed = 1
  /\ Len(results) > Len(taskResults)
  /\ Cardinality({w \in Workers : pool[w].pc # "idle"}) > 1

(***************************************************************************)
(* Claims about the results of compare.                                    *)
(***************************************************************************)
\* compare has returned a result (it did not throw)
CompareReturned == call.op = "compare" /\ ~call.threw

\* C37: every result returned by compare satisfies: passed implies
\* diffPixels >= 0 and no error; diffPixels = -1 implies not passed and a
\* diffPercentage of 100; the warning 'dimension-mismatch' comes only with
\* passed; and diffPercentage lies in [0, 100].
C37_ComparisonResultInvariant ==
  CompareReturned =>
    /\ call.result.passed => (call.result.diffPixels >= 0 /\ call.result.error = NoText)
    /\ call.result.diffPixels = -1 =>
         (~call.result.passed /\ call.result.diffPercentage = 100 * PctScale)
    /\ call.result.warning = "dimension-mismatch" => call.result.passed
    /\ call.result.diffPercentage >= 0
    /\ call.result.diffPercentage <= 100 * PctScale

\* compare found a candidate that is not an image and returned the sentinel
C37_Witness ==
  /\ CompareReturned
  /\ existsSync(call.pre, subjectBaseline) /\ existsSync(call.pre, candidatePath)
  /\ ~IsImage(call.pre.files[candidatePath])
  /\ call.result.diffPixels = -1
  /\ call.result.error # NoText

\* compare returned a failing result of a counted difference
FailedOnDifference ==
  /\ CompareReturned
  /\ ~call.result.passed
  /\ call.result.diffPixels > 0
  /\ call.result.diffPercentage > 0

\* compare passed two images of different dimensions with the warning
PassedWithWarning ==
  /\ CompareReturned
  /\ call.result.passed
  /\ call.result.warning = "dimension-mismatch"

(***************************************************************************)
(* Claims about the files of the tasks.                                    *)
(***************************************************************************)
\* the directory the command captures into
captureDir == IF options.command = "run-tests" THEN outputDir ELSE baselineDir

\* the tasks of two queue positions are distinct (scenario, viewport) pairs
distinctTasks(i, j) ==
  \/ scenarioId(payload, tasks[i]) # scenarioId(payload, tasks[j])
  \/ tasks[i].viewportKey # tasks[j].viewportKey

\* the queue positions of the tasks whose capture is in flight
inFlight == {pool[w].task + 1 : w \in {v \in Workers : pool[v].pc = "capturing"}}

\* two results of the run name the same file
sharedFile(r1, r2) ==
  \/ r1.screenshotPath # NoPath /\ r1.screenshotPath = r2.screenshotPath
  \/ r1.baselinePath # NoPath /\ r1.baselinePath = r2.baselinePath
  \/ r1.diffPath # NoPath /\ r1.diffPath = r2.diffPath

\* C38: no two distinct (scenario, viewport) tasks of a run write the same
\* file: two captures in flight on different workers write different
\* screenshot files, and the results of two distinct tasks name different
\* screenshot, baseline and diff files.
C38_NoTwoTasksWriteSameFile ==
  /\ \A i, j \in inFlight :
       distinctTasks(i, j) =>
         screenshotPathOf(captureDir, tasks[i]) # screenshotPathOf(captureDir, tasks[j])
  /\ \A i, j \in DOMAIN results :
       (\/ results[i].scenarioId # results[j].scenarioId
        \/ results[i].viewport # results[j].viewport) =>
         ~sharedFile(results[i], results[j])

\* the unchanged page of scenario 'a.' is reported as a failed comparison:
\* the capture of 'a_' overwrote its screenshot before it was compared
OverwrittenBeforeCompare ==
  \E i \in DOMAIN results :
    /\ results[i].scenarioId = <<"a", ".">>
    /\ ~results[i].passed
    /\ results[i].diffPixels > 0

(***************************************************************************)
(* Claims about the writes into the baseline directory.                    *)
(***************************************************************************)
\* the files of the baseline directory of disk that are incomplete
incompleteBaselines(disk) ==
  {p \in DOMAIN disk.files : p.dir = baselineDir /\ disk.files[p] = Incomplete}

\* C39: baselines are never partially written: no comparison, in the run
\* that writes the baseline or in a later run after an interrupted or
\* failed write, finds a file of the baseline directory that is incomplete.
C39_BaselinesNeverPartial ==
  Compared => incompleteBaselines(call.pre) = {}

\* a later run compared against the baseline a completed copy left
ComparedAfterCompleteCopy ==
  /\ Compared
  /\ pool[1].pc = "exited"
  /\ pool[1].target = subjectBaseline
  /\ existsSync(call.pre, subjectBaseline)
  /\ call.pre.files[subjectBaseline] = pool[1].content

====
